---- MODULE Spec2Model ----
(***************************************************************************)
(* Model of the session import pipeline of my-mega-memory: the dual-store  *)
(* write path of SessionImporter (primary SQLite store var/sessions.db and *)
(* FTS5 search store var/search.db), with the repositories it calls.       *)
(*                                                                         *)
(* Strings that the code only stores and compares are TLA+ strings.  Text  *)
(* that the code transforms (message content) is a sequence of one-char    *)
(* strings, so that the transformations are computed, not assumed.         *)
(***************************************************************************)
EXTENDS Integers, Sequences, FiniteSets, TLC

(***************************************************************************)
(* Bounds of the model.                                                    *)
(***************************************************************************)
\* number of importSingleSession calls in one behaviour
MaxImports == 2
\* short sessions have 0..MaxShortLen messages
MaxShortLen == 2
\* versions of the content of one session
MaxVariant == 2
\* messages (lines, tool calls) of one provider session given to a normalizer
MaxRaw == 3

(***************************************************************************)
(* Program constants.                                                      *)
(***************************************************************************)
MSG_BATCH_SIZE == 50
SEARCH_BATCH_SIZE == 50

\* a session long enough to cross one batch boundary
LongLen == MSG_BATCH_SIZE + 1

NULL == "null"

(***************************************************************************)
(* ContentCleaner (src/utils/contentCleaner.ts)                            *)
(***************************************************************************)
IsSpace(c) == c \in {" ", "\n", "\t"}

RECURSIVE ReplaceChars(_, _)
\* String.replace(/[set]/g, ' ')
ReplaceChars(s, set) ==
  IF s = <<>> THEN <<>>
  ELSE <<IF Head(s) \in set THEN " " ELSE Head(s)>> \o ReplaceChars(Tail(s), set)

JsonStructural == {"{", "}", "[", "]", "\"", ",", ":"}

RECURSIVE IndexOf(_, _, _)
\* least index >= from where s has character c, 0 when there is none
IndexOf(s, c, from) ==
  IF from > Len(s) THEN 0
  ELSE IF s[from] = c THEN from ELSE IndexOf(s, c, from + 1)

RECURSIVE StripTags(_)
\* String.replace(/<[^>]*>/g, ' ')
StripTags(s) ==
  IF s = <<>> THEN <<>>
  ELSE IF Head(s) = "<" /\ IndexOf(s, ">", 2) # 0
       THEN <<" ">> \o StripTags(SubSeq(s, IndexOf(s, ">", 2) + 1, Len(s)))
       ELSE <<Head(s)>> \o StripTags(Tail(s))

RECURSIVE CollapseSpace(_)
\* String.replace(/\s+/g, ' ')
CollapseSpace(s) ==
  IF s = <<>> THEN <<>>
  ELSE IF IsSpace(Head(s))
       THEN IF Len(s) > 1 /\ IsSpace(s[2])
            THEN CollapseSpace(Tail(s))
            ELSE <<" ">> \o CollapseSpace(Tail(s))
       ELSE <<Head(s)>> \o CollapseSpace(Tail(s))

RECURSIVE TrimLeft(_)
TrimLeft(s) == IF s # <<>> /\ IsSpace(Head(s)) THEN TrimLeft(Tail(s)) ELSE s

RECURSIVE TrimRight(_)
TrimRight(s) ==
  IF s # <<>> /\ IsSpace(s[Len(s)]) THEN TrimRight(SubSeq(s, 1, Len(s) - 1)) ELSE s

normalizeWhitespace(text) == TrimRight(TrimLeft(CollapseSpace(text)))

\* the strings one block contributes to `parts`
BlockParts(block) ==
  CASE block.type = "text" -> <<block.text>>
    [] block.type = "code" -> <<block.code>>
    [] block.type = "markdown" -> <<block.markdown>>
    [] block.type = "json" -> <<ReplaceChars(block.json, JsonStructural)>>
    [] block.type = "diff" ->
         (IF block.oldText # <<>> THEN <<block.oldText>> ELSE <<>>)
         \o (IF block.newText # <<>> THEN <<block.newText>> ELSE <<>>)
    [] block.type = "html" -> <<StripTags(block.html)>>
    [] OTHER -> <<>>

RECURSIVE AllParts(_)
AllParts(content) ==
  IF content = <<>> THEN <<>> ELSE BlockParts(Head(content)) \o AllParts(Tail(content))

RECURSIVE JoinParts(_)
\* parts.join(' ')
JoinParts(parts) ==
  IF parts = <<>> THEN <<>>
  ELSE IF Len(parts) = 1 THEN parts[1]
  ELSE parts[1] \o <<" ">> \o JoinParts(Tail(parts))

extractText(content) == normalizeWhitespace(JoinParts(AllParts(content)))

(***************************************************************************)
(* ToolInputFormatter (src/utils/toolFormatter.ts).  A tool input is a     *)
(* sequence of <<key, value>> pairs in insertion order.  Sessions of this  *)
(* model carry no working directory, so no path is stripped.               *)
(***************************************************************************)
\* `toolName.toLowerCase().includes('edit')`, on the tool names of the model
EditLike(toolName) == toolName \in {"Edit", "edit_file", "EditFile"}

\* `key.toLowerCase().replace(/_/g, '')`, on the parameter names of the model
NormalizeKey(key) ==
  CASE key \in {"old_string", "oldString"} -> "oldstring"
    [] key \in {"old_str", "oldStr"} -> "oldstr"
    [] key \in {"new_string", "newString"} -> "newstring"
    [] key \in {"new_str", "newStr"} -> "newstr"
    [] key \in {"file_path", "filePath"} -> "filepath"
    [] OTHER -> key

Least(S) == CHOOSE i \in S : \A j \in S : i <= j

RECURSIVE getParameterValue(_, _)
\* getParameterValue (src/utils/diff.ts): for each normalized key in turn, the
\* parameter of that very name, or else the first one whose normalized name
\* it is
getParameterValue(parameters, normalizedKeys) ==
  IF normalizedKeys = <<>> THEN NULL
  ELSE LET k == Head(normalizedKeys)
           direct == { i \in 1..Len(parameters) : parameters[i][1] = k }
           normal == { i \in 1..Len(parameters) : NormalizeKey(parameters[i][1]) = k }
       IN IF direct # {} THEN parameters[Least(direct)][2]
          ELSE IF normal # {} THEN parameters[Least(normal)][2]
          ELSE getParameterValue(parameters, Tail(normalizedKeys))

RECURSIVE formatGenericToolInput(_)
formatGenericToolInput(input) ==
  IF input = <<>> THEN <<>>
  ELSE << [type |-> "text", text |-> <<Head(input)[1]>>],
          [type |-> "code", code |-> Head(input)[2]] >>
       \o formatGenericToolInput(Tail(input))

formatEditDiffContent(oldString, newString, parameters) ==
  LET filePath == getParameterValue(parameters, <<"filepath", "path">>)
  IN (IF filePath # NULL
      THEN << [type |-> "text", text |-> <<"file_path:">>],
              [type |-> "code", code |-> filePath] >>
      ELSE <<>>)
     \o << [type |-> "diff", oldText |-> oldString, newText |-> newString] >>

formatInputWithPathStripping(input, toolName) ==
  LET oldString == getParameterValue(input, <<"oldstring", "oldstr">>)
      newString == getParameterValue(input, <<"newstring", "newstr">>)
  IN IF EditLike(toolName) /\ oldString # NULL /\ newString # NULL
     THEN formatEditDiffContent(oldString, newString, input)
     ELSE formatGenericToolInput(input)

(***************************************************************************)
(* SessionImporter.convertToMessage: ParsedMessage -> RenderableMessage.   *)
(* The row id is assigned by the store (MessageRepository.upsert).         *)
(***************************************************************************)
Card(sessionId, sequence, now, msg, cardType, title, subtitle, content, isError) ==
  [ sessionId |-> sessionId, sequence |-> sequence, timestamp |-> msg.timestamp,
    createdAt |-> now, canExpand |-> TRUE, cardType |-> cardType, title |-> title,
    subtitle |-> subtitle, content |-> content, isError |-> isError ]

convertToMessage(msg, sessionId, now, sequence) ==
  CASE msg.type = "user" ->
         Card(sessionId, sequence, now, msg, "user", "user", NULL, msg.content, FALSE)
    [] msg.type = "assistant_text" ->
         Card(sessionId, sequence, now, msg, "assistant", "text", NULL, msg.content, FALSE)
    [] msg.type = "assistant_thinking" ->
         Card(sessionId, sequence, now, msg, "thinking", "thinking", NULL,
              << [type |-> "text", text |-> msg.thinking] >>, FALSE)
    [] msg.type = "tool_use" ->
         Card(sessionId, sequence, now, msg, "tool-use", "tool_use", msg.toolName,
              formatInputWithPathStripping(msg.input, msg.toolName), FALSE)
    [] msg.type = "tool_result" ->
         Card(sessionId, sequence, now, msg, "tool-result", "tool_result",
              msg.toolCallId, msg.output, msg.isError)
    [] msg.type = "info" ->
         Card(sessionId, sequence, now, msg,
              IF msg.style = "error" THEN "error" ELSE "info",
              msg.title, msg.subtitle,
              IF msg.content # <<>> THEN msg.content
              ELSE << [type |-> "text", text |-> <<"[", msg.title, "]">>] >>,
              msg.style = "error")
    [] OTHER ->
         [ Card(sessionId, sequence, now, msg, "info", "unknown", NULL,
                << [type |-> "text", text |-> <<"Unknown message type">>] >>, FALSE)
           EXCEPT !.canExpand = FALSE ]

(***************************************************************************)
(* Inputs: the parsed messages sessions are made of.  The optional content *)
(* of an info message is a sequence of no or one block.  Message i of the  *)
(* variant v of a session is Palette[((i + v) % Len(Palette)) + 1], so two *)
(* variants of a session differ in every message.                          *)
(***************************************************************************)
Palette ==
  << [type |-> "user", timestamp |-> 1,
      content |-> << [type |-> "text", text |-> <<"f", "i", "x">>] >>],
     [type |-> "assistant_text", timestamp |-> 2,
      content |-> << [type |-> "text", text |-> <<" ", "\n">>] >>],
     [type |-> "assistant_thinking", timestamp |-> 3, thinking |-> <<"h", " ", " ", "m">>],
     [type |-> "tool_use", timestamp |-> 4, toolName |-> "Read", toolCallId |-> "c1",
      input |-> << <<"file_path", <<"/", "a">> >> >>, results |-> <<>>],
     [type |-> "tool_result", timestamp |-> 5, toolCallId |-> "c2",
      output |-> << [type |-> "json", json |-> <<"{", "}">>] >>, isError |-> TRUE],
     [type |-> "info", timestamp |-> 6, title |-> "cmd", subtitle |-> NULL,
      content |-> <<>>, style |-> "default"],
     [type |-> "assistant_text", timestamp |-> 7,
      content |-> << [type |-> "html", html |-> <<"<", "b", ">">>],
                     [type |-> "diff", oldText |-> <<>>, newText |-> <<>>] >>] >>

\* a session of three messages: the user asks, the assistant answers and
\* names a file
ExampleMessages ==
  << [type |-> "user", timestamp |-> 1,
      content |-> << [type |-> "text", text |-> <<"f", "i", "x", " ", "b", "u", "g">>] >>],
     [type |-> "assistant_text", timestamp |-> 2,
      content |-> << [type |-> "text", text |-> <<"d", "o", "n", "e">>] >>],
     [type |-> "assistant_text", timestamp |-> 3,
      content |-> << [type |-> "text",
                      text |-> << "s", "e", "e", " ", "s", "r", "c", "/", "a", ".",
                                  "t", "s" >>] >>] >>

\* the variant whose messages are ExampleMessages
ExampleVariant == MaxVariant + 1

ParsedMessageAt(v, i) ==
  IF v = ExampleVariant THEN ExampleMessages[(i % Len(ExampleMessages)) + 1]
  ELSE Palette[((i + v) % Len(Palette)) + 1]

\* SessionDetail.messages of variant v with n messages
Messages(v, n) == [i \in 1..n |-> ParsedMessageAt(v, i - 1)]


(***************************************************************************)
(* generateProjectUuid (src/utils/toolFormatter.ts, second part).  SHA-1   *)
(* is taken to be injective on the paths of the model: the identifier is   *)
(* represented by the normalized path it is the hash of.                   *)
(***************************************************************************)
ToLower(c) ==
  CASE c = "A" -> "a" [] c = "B" -> "b" [] c = "H" -> "h"
    [] c = "P" -> "p" [] c = "U" -> "u" [] c = "F" -> "f"
    [] c = "I" -> "i" [] c = "X" -> "x" [] OTHER -> c

SlashOf(c) == IF c = "\\" THEN "/" ELSE c

\* replace(/\\/g, '/')
ForwardSlashes(s) == [i \in 1..Len(s) |-> SlashOf(s[i])]

\* toLowerCase()
LowerCase(s) == [i \in 1..Len(s) |-> ToLower(s[i])]

\* as StripTrailingSlash, leaving the trailing slash
StripTrailingSlash_Keeps(s) == s

\* replace(/\/$/, '')
StripTrailingSlash(s) ==
  IF s # <<>> /\ s[Len(s)] = "/" THEN SubSeq(s, 1, Len(s) - 1) ELSE s

generateProjectUuid(projectPath) ==
  LowerCase(StripTrailingSlash(ForwardSlashes(projectPath)))

(***************************************************************************)
(* The primary store (DatabaseManager.initTables): three tables and the    *)
(* AUTOINCREMENT counters of sqlite_sequence, which are part of the        *)
(* database and so of every transaction.  Sessions of the model carry no   *)
(* metadata, so the nullable metadata columns of a session row are left    *)
(* out.                                                                    *)
(***************************************************************************)
EmptyDb ==
  [ projects |-> {}, sessions |-> {}, messages |-> {},
    seq |-> [projects |-> 0, sessions |-> 0, messages |-> 0] ]

\* `project.path || null`; SQL NULL in the path column is the one-element
\* sequence of NULL, which is no sequence of characters
OrNull(path) == IF path = <<>> THEN <<NULL>> ELSE path

\* as ProjectUpsert by INSERT OR REPLACE: on conflict the row is deleted and
\* inserted again under a new id
ProjectUpsert_Replace(d, project) ==
  [d EXCEPT !.projects =
     { p \in @ : p.projectUuid # project.projectUuid } \cup
     {[ id |-> d.seq.projects + 1, projectUuid |-> project.projectUuid,
        name |-> project.name, path |-> OrNull(project.path),
        createdAt |-> project.createdAt, updatedAt |-> project.updatedAt ]},
           !.seq.projects = @ + 1]

\* ProjectRepository.upsert: created_at is kept on conflict
ProjectUpsert(d, project) ==
  IF \E p \in d.projects : p.projectUuid = project.projectUuid
  THEN [d EXCEPT !.projects =
          { IF p.projectUuid = project.projectUuid
            THEN [p EXCEPT !.name = project.name, !.path = OrNull(project.path),
                           !.updatedAt = project.updatedAt]
            ELSE p : p \in d.projects }]
  ELSE [d EXCEPT !.projects = @ \cup
          {[ id |-> d.seq.projects + 1, projectUuid |-> project.projectUuid,
             name |-> project.name, path |-> OrNull(project.path),
             createdAt |-> project.createdAt, updatedAt |-> project.updatedAt ]},
                 !.seq.projects = @ + 1]

\* the id RETURNING gives after the upsert
ProjectIdOf(d, projectUuid) ==
  (CHOOSE p \in d.projects : p.projectUuid = projectUuid).id

\* as SessionUpsert, without the conflict clause: a row is added every time
SessionUpsert_AlwaysInserts(d, session) ==
  [d EXCEPT !.sessions = @ \cup
     {[ id |-> d.seq.sessions + 1, projectId |-> session.projectId,
        sessionId |-> session.sessionId, title |-> session.title,
        provider |-> session.provider, messageCount |-> session.messageCount,
        createdAt |-> session.createdAt, updatedAt |-> session.updatedAt ]},
            !.seq.sessions = @ + 1]

\* SessionRepository.upsert: created_at is kept on conflict
SessionUpsert(d, session) ==
  IF \E x \in d.sessions :
       x.projectId = session.projectId /\ x.sessionId = session.sessionId
  THEN [d EXCEPT !.sessions =
          { IF x.projectId = session.projectId /\ x.sessionId = session.sessionId
            THEN [x EXCEPT !.title = session.title, !.provider = session.provider,
                           !.messageCount = session.messageCount,
                           !.updatedAt = session.updatedAt]
            ELSE x : x \in d.sessions }]
  ELSE [d EXCEPT !.sessions = @ \cup
          {[ id |-> d.seq.sessions + 1, projectId |-> session.projectId,
             sessionId |-> session.sessionId, title |-> session.title,
             provider |-> session.provider, messageCount |-> session.messageCount,
             createdAt |-> session.createdAt, updatedAt |-> session.updatedAt ]},
                 !.seq.sessions = @ + 1]

\* SessionRepository.getByProjectAndSessionId
HasSession(d, projectId, sessionId) ==
  \E x \in d.sessions : x.projectId = projectId /\ x.sessionId = sessionId

SessionRow(d, projectId, sessionId) ==
  CHOOSE x \in d.sessions : x.projectId = projectId /\ x.sessionId = sessionId

WithId(card, id) ==
  [ id |-> id, sessionId |-> card.sessionId, sequence |-> card.sequence,
    cardType |-> card.cardType, title |-> card.title, subtitle |-> card.subtitle,
    content |-> card.content, timestamp |-> card.timestamp,
    canExpand |-> card.canExpand, isError |-> card.isError,
    createdAt |-> card.createdAt ]

\* as MessageUpsert, with INSERT OR REPLACE in the place of ON CONFLICT DO
\* UPDATE: the row in conflict is deleted and a new row is inserted
MessageUpsert_Replace(d, message) ==
  [d EXCEPT !.messages =
     { m \in @ : ~(m.sessionId = message.sessionId /\ m.sequence = message.sequence) }
     \cup {WithId(message, d.seq.messages + 1)},
            !.seq.messages = @ + 1]

\* MessageRepository.upsert: every column but id is overwritten on conflict
MessageUpsert(d, message) ==
  IF \E m \in d.messages :
       m.sessionId = message.sessionId /\ m.sequence = message.sequence
  THEN [d EXCEPT !.messages =
          { IF m.sessionId = message.sessionId /\ m.sequence = message.sequence
            THEN WithId(message, m.id) ELSE m : m \in d.messages }]
  ELSE [d EXCEPT !.messages = @ \cup {WithId(message, d.seq.messages + 1)},
                 !.seq.messages = @ + 1]

\* MessageRepository.deleteBySessionIdAndMinSequence
deleteBySessionIdAndMinSequence(d, sessionId, minSequence) ==
  [d EXCEPT !.messages =
     { m \in @ : ~(m.sessionId = sessionId /\ m.sequence > minSequence) }]

\* MessageRepository.getBySessionId, as a set of rows
MessagesOf(d, sessionId) == { m \in d.messages : m.sessionId = sessionId }

\* MessageRepository.getBySessionId: the rows of the session, ORDER BY
\* sequence ASC (a sequence occurs once in a session: UNIQUE(session_id,
\* sequence))
getBySessionId(d, sessionId) ==
  LET rows == MessagesOf(d, sessionId)
      Rank(m) == Cardinality({ x \in rows : x.sequence < m.sequence })
  IN [i \in 1..Cardinality(rows) |-> CHOOSE m \in rows : Rank(m) = i - 1]

(***************************************************************************)
(* The search store: the rows of the FTS5 table search_messages in rowid   *)
(* order.  The table has no key: equal rows can occur more than once.      *)
(***************************************************************************)
\* as SearchDeleteBySessionId, deleting nothing
SearchDeleteBySessionId_Nothing(rows, sessionId) == rows

\* SearchRepository.deleteBySessionId
SearchDeleteBySessionId(rows, sessionId) ==
  LET Keep(e) == e.sessionId # sessionId IN SelectSeq(rows, Keep)

\* SearchRepository.insert
SearchInsertRow(rows, entry) == Append(rows, entry)

SearchRowsOf(rows, sessionId) ==
  LET Mine(e) == e.sessionId = sessionId IN SelectSeq(rows, Mine)


(***************************************************************************)
(* Requests.  A request is described by the project it names, the provider *)
(* session id, the number of messages and the variant of their content;    *)
(* SessionWithProjectOf gives the structure importSingleSession receives.  *)
(***************************************************************************)
ProjectA == [path |-> <<"/", "a">>, name |-> "a"]
ProjectB == [path |-> <<"\\", "B", "/">>, name |-> "b"]
UnknownPath == <<"u", "n", "k", "n", "o", "w", "n">>
ProjectUnknown == [path |-> UnknownPath, name |-> "unknown"]
\* one project directory under two spellings of its path
ProjectHome ==
  [ path |-> << "/", "H", "o", "m", "e", "/", "U", "s", "e", "r", "/",
                "P", "r", "o", "j", "/" >>, name |-> "proj" ]
ProjectHomeLower ==
  [ path |-> << "/", "h", "o", "m", "e", "/", "u", "s", "e", "r", "/",
                "p", "r", "o", "j" >>, name |-> "proj" ]

Lens == (0..MaxShortLen) \cup {LongLen}

\* the length of a request whose session has no `messages`
NoMessages == 0 - 1

HasMessages(r) == r.len # NoMessages

\* every length and variant of the session s1 of project A; one session with
\* the same provider session id in project B, one other session in project
\* A, one request without a usable project path, one request whose session
\* has no messages array, one session of a project directory under each
\* spelling of its path, and the two-message session with and without its
\* second message
Requests ==
  [project : {ProjectA}, sid : {"s1"}, len : Lens, variant : 1..MaxVariant]
  \cup { [project |-> ProjectB, sid |-> "s1", len |-> 1, variant |-> 1],
         [project |-> ProjectA, sid |-> "s2", len |-> 2, variant |-> 1],
         [project |-> ProjectUnknown, sid |-> "s1", len |-> 1, variant |-> 1],
         [project |-> ProjectA, sid |-> "s1", len |-> NoMessages, variant |-> 2],
         [project |-> ProjectHome, sid |-> "s1", len |-> 0, variant |-> 1],
         [project |-> ProjectHomeLower, sid |-> "s1", len |-> 0, variant |-> 2],
         [project |-> ProjectA, sid |-> "s1", len |-> 2, variant |-> ExampleVariant],
         [project |-> ProjectA, sid |-> "s1", len |-> 1, variant |-> ExampleVariant] }

NoRequest == [project |-> [path |-> <<>>, name |-> ""], sid |-> "", len |-> 0, variant |-> 0]

SessionWithProjectOf(r) ==
  [ session |-> [sessionId |-> r.sid, title |-> <<"title", r.variant>>,
                 messages |-> IF HasMessages(r) THEN Messages(r.variant, r.len) ELSE NULL],
    provider |-> "claude_code",
    projectPath |-> r.project.path, projectName |-> r.project.name,
    created |-> r.variant, updated |-> r.variant + 1 ]

\* the checks importSingleSession makes before it writes
ValidRequest(swp) ==
  /\ swp.projectName # ""
  /\ swp.projectPath # <<>>
  /\ swp.projectPath # UnknownPath

(***************************************************************************)
(* The provider normalizers.  Every parser turns the records of a provider *)
(* session into ParsedMessages; the Claude Code, Codex and Kilo parsers    *)
(* then pass the list through the same correlator                          *)
(* (connectToolResultsToToolUse, connectToolOutputsToToolCalls), the Droid *)
(* and Gemini parsers return their list as it is.  An absent toolCallId    *)
(* (undefined) is NULL.                                                    *)
(***************************************************************************)
\* the truthiness test `callId && ...` on an optional string
Truthy(callId) == callId # NULL /\ callId # ""

RECURSIVE JoinComma(_)
JoinComma(parts) ==
  IF parts = <<>> THEN <<>>
  ELSE IF Len(parts) = 1 THEN parts[1]
  ELSE parts[1] \o <<",">> \o JoinComma(Tail(parts))

\* JSON.stringify of a string of the model (its texts need no escape)
JsonString(t) == <<"\"">> \o t \o <<"\"">>

\* JSON.stringify of one MessageContent of a tool output
JsonOfBlock(b) ==
  CASE b.type = "code" ->
         <<"{", "\"type\":\"code\"", ",", "\"code\":">> \o JsonString(b.code) \o <<"}">>
    [] b.type = "json" ->
         <<"{", "\"type\":\"json\"", ",", "\"json\":">> \o JsonString(b.json) \o <<"}">>
    [] b.type = "diff" ->
         <<"{", "\"type\":\"diff\"", ",", "\"oldText\":">> \o JsonString(b.oldText)
           \o <<",", "\"newText\":">> \o JsonString(b.newText) \o <<"}">>
    [] OTHER ->
         <<"{", "\"type\":\"text\"", ",", "\"text\":">> \o JsonString(b.text) \o <<"}">>

\* JSON.stringify(toolResult.output)
JsonStringify(output) ==
  <<"[">> \o JoinComma([i \in 1..Len(output) |-> JsonOfBlock(output[i])]) \o <<"]">>

\* as ToolResultOf, always with the serialized output
ToolResultOf_AlwaysJson(toolResult) ==
  [ output |-> JsonStringify(toolResult.output),
    isError |-> toolResult.isError,
    toolCallId |-> toolResult.toolCallId ]

\* the ToolResult a tool_result message is reduced to (results.map)
ToolResultOf(toolResult) ==
  [ output |-> IF toolResult.output # <<>> /\ toolResult.output[1].type = "code"
               THEN toolResult.output[1].code
               ELSE JsonStringify(toolResult.output),
    isError |-> toolResult.isError,
    toolCallId |-> toolResult.toolCallId ]

\* toolResultsByCallId.get(callId): the tool_result messages with a truthy
\* identifier equal to callId, in input order (none: the map has no such key)
toolResultsByCallId(rawMessages, callId) ==
  LET Mine(m) == m.type = "tool_result" /\ Truthy(m.toolCallId) /\ m.toolCallId = callId
  IN SelectSeq(rawMessages, Mine)

\* `callId && toolResultsByCallId.has(callId)` for a tool_use message
Correlates(rawMessages, msg) ==
  Truthy(msg.toolCallId) /\ toolResultsByCallId(rawMessages, msg.toolCallId) # <<>>

\* connectedCallIds when the loop reaches the message at index i (1-based)
connectedCallIds(rawMessages, i) ==
  { rawMessages[j].toolCallId :
      j \in { k \in 1..(i - 1) : /\ rawMessages[k].type = "tool_use"
                                 /\ Correlates(rawMessages, rawMessages[k]) } }

\* as hasMatchingToolUse, never finding one
hasMatchingToolUse_Never(rawMessages, callId) == FALSE

\* rawMessages.some(m => m.type === 'tool_use' && m.toolCallId === callId)
hasMatchingToolUse(rawMessages, callId) ==
  \E j \in 1..Len(rawMessages) :
    rawMessages[j].type = "tool_use" /\ rawMessages[j].toolCallId = callId

\* the tool_result branch of the loop: is the message pushed?
KeepsToolResult(rawMessages, i) ==
  LET callId == rawMessages[i].toolCallId
  IN /\ (~Truthy(callId) \/ callId \notin connectedCallIds(rawMessages, i))
     /\ ~hasMatchingToolUse(rawMessages, callId)

\* what one pass of the loop pushes on `result`
Pushed(rawMessages, i) ==
  LET msg == rawMessages[i]
  IN IF msg.type = "tool_use"
     THEN IF Correlates(rawMessages, msg)
          THEN LET results == toolResultsByCallId(rawMessages, msg.toolCallId)
               IN << [msg EXCEPT !.results =
                        [k \in 1..Len(results) |-> ToolResultOf(results[k])]] >>
          ELSE << msg >>
     ELSE IF msg.type = "tool_result"
          THEN IF KeepsToolResult(rawMessages, i) THEN << msg >> ELSE <<>>
          ELSE << msg >>

RECURSIVE ConnectUpTo(_, _)
ConnectUpTo(rawMessages, k) ==
  IF k = 0 THEN <<>>
  ELSE ConnectUpTo(rawMessages, k - 1) \o Pushed(rawMessages, k)

\* ClaudeSessionParser.connectToolResultsToToolUse, and word for word
\* CodexSessionParser.connectToolOutputsToToolCalls and
\* KiloSessionParser.connectToolResultsToToolUse
connectToolResultsToToolUse(rawMessages) ==
  ConnectUpTo(rawMessages, Len(rawMessages))

\* does text s contain the text sub (String.includes)
Includes(s, sub) ==
  \E i \in 1..(Len(s) - Len(sub) + 1) : SubSeq(s, i, i + Len(sub) - 1) = sub

LooksLikeDiff(s) == Includes(s, <<"-", "-", "-">>) /\ Includes(s, <<"+", "+", "+">>)

\* JSON.parse succeeds: of the texts of the model that start with a brace,
\* "{}" is JSON and "{" is not
ParsesAsJson(s) == s = <<"{", "}">>

\* DroidSessionParser.parseToolResultContent
parseToolResultContent(content) ==
  IF LooksLikeDiff(content)
  THEN << [type |-> "diff", oldText |-> <<>>, newText |-> content] >>
  ELSE IF TrimLeft(content) # <<>> /\ TrimLeft(content)[1] = "{" /\ ParsesAsJson(content)
       THEN << [type |-> "json", json |-> content] >>
       ELSE << [type |-> "code", code |-> content] >>

\* toolCallMap when parseMessage is called for line i: the tool_use blocks of
\* the assistant lines before it (the last block of an identifier wins)
toolCallMapHas(lines, i, id) ==
  \E j \in 1..(i - 1) :
    /\ lines[j].role = "assistant"
    /\ \E k \in 1..Len(lines[j].content) :
         lines[j].content[k].type = "tool_use" /\ lines[j].content[k].id = id

toolCallMapName(lines, i, id) ==
  LET at == UNION { { <<j, k>> : k \in { k \in 1..Len(lines[j].content) :
                                          /\ lines[j].role = "assistant"
                                          /\ lines[j].content[k].type = "tool_use"
                                          /\ lines[j].content[k].id = id } } :
                    j \in 1..(i - 1) }
      last == CHOOSE p \in at : \A q \in at : q[1] < p[1] \/ (q[1] = p[1] /\ q[2] <= p[2])
  IN lines[last[1]].content[last[2]].name

\* what DroidSessionParser.parseMessage pushes for one content block
DroidBlock(lines, i, block) ==
  LET line == lines[i]
  IN IF line.role = "user"
     THEN IF block.type = "tool_result"
          THEN IF toolCallMapHas(lines, i, block.tool_use_id)
               THEN << [ type |-> "tool_result", timestamp |-> line.timestamp,
                         toolName |-> toolCallMapName(lines, i, block.tool_use_id),
                         toolCallId |-> block.tool_use_id,
                         output |-> parseToolResultContent(block.content),
                         isError |-> FALSE ] >>
               ELSE <<>>
          ELSE IF block.type = "text"
               THEN << [ type |-> "user", timestamp |-> line.timestamp,
                         content |-> << [type |-> "text", text |-> block.text] >> ] >>
               ELSE <<>>
     ELSE IF block.type = "tool_use"
          THEN << [ type |-> "tool_use", timestamp |-> line.timestamp,
                    toolName |-> block.name, toolCallId |-> block.id,
                    input |-> block.input, results |-> <<>> ] >>
          ELSE IF block.type = "text"
               THEN << [ type |-> "assistant_text", timestamp |-> line.timestamp,
                         content |-> << [type |-> "markdown", markdown |-> block.text] >> ] >>
               ELSE <<>>

RECURSIVE DroidBlocks(_, _, _)
DroidBlocks(lines, i, k) ==
  IF k = 0 THEN <<>>
  ELSE DroidBlocks(lines, i, k - 1) \o DroidBlock(lines, i, lines[i].content[k])

\* DroidSessionParser.parseMessage for line i
DroidParseMessage(lines, i) == DroidBlocks(lines, i, Len(lines[i].content))

RECURSIVE DroidParseUpTo(_, _)
DroidParseUpTo(lines, n) ==
  IF n = 0 THEN <<>>
  ELSE DroidParseUpTo(lines, n - 1) \o DroidParseMessage(lines, n)

\* DroidSessionParser.parseContent: the messages of the lines, in order
DroidParseContent(lines) == DroidParseUpTo(lines, Len(lines))

\* the results GeminiSessionParser.parseToolCall collects for one tool call
GeminiResults(toolCall) ==
  [k \in 1..Len(toolCall.result) |->
     [ output |-> toolCall.result[k], isError |-> toolCall.status = "error",
       toolCallId |-> toolCall.id ]]
  \o (IF toolCall.fileDiff # NULL
      THEN << [output |-> toolCall.fileDiff, isError |-> FALSE, toolCallId |-> toolCall.id] >>
      ELSE <<>>)

\* GeminiSessionParser.parseToolCall: the tool_use with its results, and one
\* tool_result message for each result
parseToolCall(toolCall, timestamp) ==
  LET results == GeminiResults(toolCall)
  IN << [ type |-> "tool_use", timestamp |-> timestamp, toolName |-> toolCall.name,
          toolCallId |-> toolCall.id, input |-> toolCall.args, results |-> results ] >>
     \o [k \in 1..Len(results) |->
           [ type |-> "tool_result", timestamp |-> timestamp, toolName |-> toolCall.name,
             toolCallId |-> toolCall.id,
             output |-> IF LooksLikeDiff(results[k].output)
                        THEN << [type |-> "diff", oldText |-> <<>>,
                                 newText |-> results[k].output] >>
                        ELSE << [type |-> "code", code |-> results[k].output] >>,
             isError |-> results[k].isError ]]

RECURSIVE GeminiParseUpTo(_, _, _)
GeminiParseUpTo(toolCalls, timestamp, n) ==
  IF n = 0 THEN <<>>
  ELSE GeminiParseUpTo(toolCalls, timestamp, n - 1) \o parseToolCall(toolCalls[n], timestamp)

\* GeminiSessionParser.parseMessage for the tool calls of a gemini message
GeminiParseToolCalls(toolCalls, timestamp) ==
  GeminiParseUpTo(toolCalls, timestamp, Len(toolCalls))


(***************************************************************************)
(* Inputs of the normalizers: what the line parsers of Claude Code and     *)
(* Codex hand to the correlator (a tool_result output of theirs is empty   *)
(* or made of code blocks), the message lines of a Droid session, and the  *)
(* tool calls of a Gemini message.                                         *)
(***************************************************************************)
FileContents == <<"f", "i", "l", "e", " ", "c", "o", "n", "t", "e", "n", "t", "s">>

ClaudeRawMessages ==
  { [type |-> "user", timestamp |-> 1,
     content |-> << [type |-> "text", text |-> <<"f", "i", "x">>] >>],
    [type |-> "tool_use", timestamp |-> 2, toolName |-> "Read", toolCallId |-> "c1",
     input |-> << <<"file_path", <<"/", "a">> >> >>, results |-> <<>>],
    [type |-> "tool_use", timestamp |-> 3, toolName |-> "tool", toolCallId |-> NULL,
     input |-> <<>>, results |-> <<>>],
    [type |-> "tool_use", timestamp |-> 4, toolName |-> "Bash", toolCallId |-> "c2",
     input |-> << <<"command", <<"l", "s">> >> >>,
     results |-> << [output |-> <<"o", "l", "d">>, isError |-> FALSE, toolCallId |-> "c2"] >>],
    [type |-> "tool_result", timestamp |-> 5, toolCallId |-> "c1",
     output |-> << [type |-> "code", code |-> FileContents] >>, isError |-> FALSE],
    [type |-> "tool_result", timestamp |-> 6, toolCallId |-> "c2",
     output |-> << [type |-> "code", code |-> <<"e">>] >>, isError |-> TRUE],
    [type |-> "tool_result", timestamp |-> 7, toolCallId |-> NULL,
     output |-> << [type |-> "code", code |-> <<"x">>] >>, isError |-> FALSE],
    [type |-> "tool_result", timestamp |-> 8, toolCallId |-> "c3",
     output |-> << [type |-> "code", code |-> <<"a">>], [type |-> "code", code |-> <<"b">>] >>,
     isError |-> FALSE] }

CodexRawMessages ==
  { [type |-> "tool_use", timestamp |-> 1, toolName |-> "shell", toolCallId |-> "c1",
     input |-> << <<"command", <<"l", "s">> >> >>, results |-> <<>>],
    [type |-> "tool_use", timestamp |-> 2, toolName |-> "tool", toolCallId |-> NULL,
     input |-> <<>>, results |-> <<>>],
    [type |-> "tool_result", timestamp |-> 3, toolCallId |-> "c1",
     output |-> <<>>, isError |-> FALSE],
    [type |-> "tool_result", timestamp |-> 4, toolCallId |-> "c1",
     output |-> << [type |-> "code", code |-> <<"x">>] >>, isError |-> FALSE],
    [type |-> "tool_result", timestamp |-> 5, toolCallId |-> NULL,
     output |-> << [type |-> "code", code |-> <<"x">>] >>, isError |-> FALSE] }

DroidLines ==
  { [role |-> "assistant", timestamp |-> 1,
     content |-> << [type |-> "tool_use", id |-> "c1", name |-> "Read",
                     input |-> << <<"file_path", <<"/", "a">> >> >>],
                    [type |-> "text", text |-> <<"o", "k">>] >>],
    [role |-> "user", timestamp |-> 2,
     content |-> << [type |-> "tool_result", tool_use_id |-> "c1", content |-> <<"x">>] >>],
    [role |-> "user", timestamp |-> 3,
     content |-> << [type |-> "tool_result", tool_use_id |-> "c2",
                     content |-> <<"{", "}">>] >>],
    [role |-> "user", timestamp |-> 4,
     content |-> << [type |-> "text", text |-> <<"f", "i", "x">>] >>] }

GeminiToolCalls ==
  { [id |-> "c1", name |-> "Read", args |-> << <<"file_path", <<"/", "a">> >> >>,
     result |-> << <<"x">> >>, status |-> "success", fileDiff |-> NULL],
    [id |-> "c2", name |-> "Edit", args |-> <<>>, result |-> <<>>, status |-> "error",
     fileDiff |-> <<"-", "-", "-", " ", "+", "+", "+">>],
    [id |-> "c3", name |-> "tool", args |-> <<>>, result |-> <<>>, status |-> "success",
     fileDiff |-> NULL] }

\* the sequences of at most n elements of S
SeqsUpTo(S, n) == UNION { [1..k -> S] : k \in 0..n }

Correlating == {"claude_code", "codex"}

\* provider sessions: the normalizer and what it reads
NormInputs ==
  [provider : {"claude_code"}, raw : SeqsUpTo(ClaudeRawMessages, MaxRaw)]
  \cup [provider : {"codex"}, raw : SeqsUpTo(CodexRawMessages, MaxRaw)]
  \cup [provider : {"droid"}, raw : SeqsUpTo(DroidLines, MaxRaw)]
  \cup [provider : {"gemini"}, raw : SeqsUpTo(GeminiToolCalls, MaxRaw)]

\* SessionDetail.messages the normalizer of provider p returns for input
NormalizerOf(p, input) ==
  CASE p \in Correlating -> connectToolResultsToToolUse(input)
    [] p = "droid" -> DroidParseContent(input)
    [] OTHER -> GeminiParseToolCalls(input, 1)

(***************************************************************************)
(* State.                                                                  *)
(***************************************************************************)
VARIABLES
  db,          \* primary store as the importer's connection sees it
  dbDisk,      \* committed primary store: what every other connection reads
  dbTx,        \* a transaction is open on the primary connection
  search,      \* search rows as the importer's connection sees them
  searchDisk,  \* committed search rows
  searchTx,    \* a transaction is open on the search connection
  pc,          \* where importSingleSession / importSession stands
  req,         \* the request of the current (or the last) call
  idx,         \* the index of the forEach loop under way
  outcome,     \* how the last call ended
  thrown,      \* the last call raised an error to its caller
  imports,     \* calls made so far
  pre,         \* committed stores when the current (or the last) call began
  prev,        \* request, outcome and `pre` of the call before
  provider,    \* the normalizer that parsed a provider session ("none": none yet)
  raw,         \* what the normalizer read: rawMessages, lines or tool calls
  detail,      \* SessionDetail.messages it returned
  adapterSessions, \* importAll: what getSessions of each adapter returns
  scanned,     \* importAll: adapters whose getSessions has returned
  allSessions, \* importAll: the sessions the adapters returned, in order
  bpc,         \* importAll: where the run stands
  group,       \* importAll: index of the project group under way
  member,      \* importAll: index of the session under way in its group
  importedCount, \* importAll: importedCount
  errorCount,  \* importAll: errorCount
  trail,       \* importAll: what became of each session, in order
  returned,    \* importAll: the value the run resolved with
  answer,      \* the last call of search / searchByProject and its outcome
  file,        \* the session file of a provider: its lines, or NoFile
  parsed,      \* the last call of a parser and its outcome
  response     \* POST /import/session: the handler under way, or what it answered

\* no search has been made
NoAnswer == [kind |-> "none"]
\* there is no session file; no parser has been called
NoFile == << "ENOENT" >>
NoParse == [entry |-> "none"]
\* no request has reached the endpoint
NoResponse == [kind |-> "none"]

\* the state of the importer, and the state of a normalizer
ivars == << db, dbDisk, dbTx, search, searchDisk, searchTx, pc, req, idx,
            outcome, thrown, imports, pre, prev >>
nvars == << provider, raw, detail >>
\* the state of a run of importAll, and the last search call
svars == << adapterSessions, scanned >>
bvars == << adapterSessions, scanned, allSessions, bpc, group, member, importedCount, errorCount,
            trail, returned >>
\* what callers were answered: the last search call, the endpoint's response
qvars == << answer, response >>
\* a session file and the last call of a parser
pvars == << file, parsed >>
vars == << db, dbDisk, dbTx, search, searchDisk, searchTx, pc, req, idx,
           outcome, thrown, imports, pre, prev, provider, raw, detail,
           adapterSessions, scanned, allSessions, bpc, group, member,
           importedCount, errorCount, trail, returned, answer, file, parsed,
           response >>

Init ==
  /\ db = EmptyDb
  /\ dbDisk = EmptyDb
  /\ dbTx = FALSE
  /\ search = <<>>
  /\ searchDisk = <<>>
  /\ searchTx = FALSE
  /\ pc = "idle"
  /\ req = NoRequest
  /\ idx = 0
  /\ outcome = "none"
  /\ thrown = FALSE
  /\ imports = 0
  /\ pre = [db |-> EmptyDb, search |-> <<>>]
  /\ prev = [req |-> NoRequest, outcome |-> "none", pre |-> [db |-> EmptyDb, search |-> <<>>]]
  /\ provider = "none"
  /\ raw = <<>>
  /\ detail = <<>>
  /\ adapterSessions = <<>>
  /\ scanned = 0
  /\ allSessions = <<>>
  /\ bpc = "idle"
  /\ group = 0
  /\ member = 0
  /\ importedCount = 0
  /\ errorCount = 0
  /\ trail = <<>>
  /\ returned = "pending"
  /\ answer = NoAnswer
  /\ file = NoFile
  /\ parsed = NoParse
  /\ response = NoResponse

(***************************************************************************)
(* The locals of importSession, as functions of the request and the store. *)
(***************************************************************************)
ProjectUuidOf(r) == generateProjectUuid(r.project.path)

ProjectOf(r) ==
  LET swp == SessionWithProjectOf(r)
  IN [ projectUuid |-> ProjectUuidOf(r), name |-> swp.projectName,
       path |-> swp.projectPath, createdAt |-> swp.created, updatedAt |-> swp.updated ]

\* sessionData of importSession
SessionDataOf(r, projectId) ==
  LET swp == SessionWithProjectOf(r)
  IN [ projectId |-> projectId, sessionId |-> swp.session.sessionId,
       title |-> swp.session.title, provider |-> swp.provider,
       messageCount |-> Len(swp.session.messages),
       createdAt |-> swp.created, updatedAt |-> swp.updated ]

\* the row id of the session of request r in store d (the local sessionId)
SessionRowIdOf(d, r) ==
  SessionRow(d, ProjectIdOf(d, ProjectUuidOf(r)), r.sid).id

HasSessionOf(d, r) ==
  /\ \E p \in d.projects : p.projectUuid = ProjectUuidOf(r)
  /\ HasSession(d, ProjectIdOf(d, ProjectUuidOf(r)), r.sid)

\* messageData of the loop body at index i (0-based)
MessageDataOf(r, sessionRowId, i) ==
  LET swp == SessionWithProjectOf(r)
  IN convertToMessage(swp.session.messages[i + 1], sessionRowId, swp.created, i)

\* the search entry of the renderable message at index i
SearchEntryOf(r, msg) ==
  LET swp == SessionWithProjectOf(r)
  IN [ content |-> extractText(msg.content), sessionId |-> swp.session.sessionId,
       projectId |-> ProjectUuidOf(r), cardType |-> msg.cardType,
       sessionTitle |-> swp.session.title, projectName |-> swp.projectName,
       timestamp |-> msg.timestamp ]

\* as BatchBoundary, committing after every pass of the loop
BatchBoundary_EveryPass(i, size) == TRUE

\* `(index + 1) % MSG_BATCH_SIZE === 0`
BatchBoundary(i, size) == (i + 1) % size = 0

\* as DeleteStale, deleting nothing
DeleteStale_Nothing(d, sessionRowId, lastSequence) == d

\* the statement after the message loop: drop the rows behind lastSequence
DeleteStale(d, sessionRowId, lastSequence) ==
  IF lastSequence >= 0
  THEN deleteBySessionIdAndMinSequence(d, sessionRowId, lastSequence)
  ELSE d

\* as SearchStep, without the `if (text)` test
SearchStep_NoTextTest(rows, r, sessionRowId, i) ==
  SearchInsertRow(rows, SearchEntryOf(r, MessageDataOf(r, sessionRowId, i)))

\* the loop body of the search write at index i
SearchStep(rows, r, sessionRowId, i) ==
  LET msg == MessageDataOf(r, sessionRowId, i)
  IN IF extractText(msg.content) # <<>>
     THEN SearchInsertRow(rows, SearchEntryOf(r, msg))
     ELSE rows

(***************************************************************************)
(* Actions: importSingleSession and the steps of importSession.            *)
(***************************************************************************)
\* importSingleSession up to the call of importSession: the two checks and
\* projects.upsert, which runs outside any transaction (autocommit)
CallImportSingleSession(r) ==
  /\ pc = "idle"
  /\ imports < MaxImports
  /\ imports' = imports + 1
  /\ req' = r
  /\ pre' = [db |-> dbDisk, search |-> searchDisk]
  /\ prev' = [req |-> req, outcome |-> outcome, pre |-> pre]
  /\ idx' = 0
  /\ IF ValidRequest(SessionWithProjectOf(r))
     THEN /\ db' = ProjectUpsert(db, ProjectOf(r))
          /\ dbDisk' = db'
          /\ pc' = "importSession"
          /\ outcome' = "running"
          /\ thrown' = FALSE
     ELSE /\ pc' = "idle"
          /\ outcome' = "rejected"
          /\ thrown' = TRUE
          /\ UNCHANGED << db, dbDisk >>
  /\ UNCHANGED << dbTx, search, searchDisk, searchTx >>

\* a caller other than the endpoint calls importSingleSession
ImportSingleSession(r) ==
  /\ CallImportSingleSession(r)
  /\ UNCHANGED << nvars, bvars, qvars, pvars >>

\* as BeginSession, recreating the session: its message rows are deleted
\* before the loop writes them again
BeginSession_ClearsMessages ==
  /\ pc = "importSession"
  /\ HasMessages(req)
  /\ dbTx' = TRUE
  /\ db' = LET d == SessionUpsert(db, SessionDataOf(req, ProjectIdOf(db, ProjectUuidOf(req))))
           IN deleteBySessionIdAndMinSequence(d, SessionRowIdOf(d, req), -1)
  /\ pc' = "messages"
  /\ idx' = 0
  /\ UNCHANGED << dbDisk, search, searchDisk, searchTx, req, outcome, thrown,
                  imports, pre, prev >>
  /\ UNCHANGED << nvars, bvars, qvars, pvars >>

\* importSession lines 195-215: beginTransaction, sessions.upsert; reading
\* `sessionDetail.messages.length` raises when the session has no messages
BeginSession ==
  /\ pc = "importSession"
  /\ HasMessages(req)
  /\ dbTx' = TRUE
  /\ db' = SessionUpsert(db, SessionDataOf(req, ProjectIdOf(db, ProjectUuidOf(req))))
  /\ pc' = "messages"
  /\ idx' = 0
  /\ UNCHANGED << dbDisk, search, searchDisk, searchTx, req, outcome, thrown,
                  imports, pre, prev >>
  /\ UNCHANGED << nvars, bvars, qvars, pvars >>

\* one pass of the message loop (lines 221-231), with its batch commit
UpsertMessage ==
  /\ pc = "messages"
  /\ idx < req.len
  /\ db' = MessageUpsert(db, MessageDataOf(req, SessionRowIdOf(db, req), idx))
  /\ dbDisk' = IF BatchBoundary(idx, MSG_BATCH_SIZE) THEN db' ELSE dbDisk
  /\ idx' = idx + 1
  /\ UNCHANGED << dbTx, search, searchDisk, searchTx, pc, req, outcome, thrown,
                  imports, pre, prev >>
  /\ UNCHANGED << nvars, bvars, qvars, pvars >>

\* lines 233-237: delete the stale rows, commit
FinishPrimary ==
  /\ pc = "messages"
  /\ idx = req.len
  /\ db' = DeleteStale(db, SessionRowIdOf(db, req), idx - 1)
  /\ dbDisk' = db'
  /\ dbTx' = FALSE
  /\ pc' = "searchDelete"
  /\ UNCHANGED << search, searchDisk, searchTx, req, idx, outcome, thrown,
                  imports, pre, prev >>
  /\ UNCHANGED << nvars, bvars, qvars, pvars >>

\* lines 241-242: search.deleteBySessionId (autocommit), beginTransaction
SearchDelete ==
  /\ pc = "searchDelete"
  /\ search' = SearchDeleteBySessionId(search, req.sid)
  /\ searchDisk' = search'
  /\ searchTx' = TRUE
  /\ pc' = "searchInsert"
  /\ idx' = 0
  /\ UNCHANGED << db, dbDisk, dbTx, req, outcome, thrown, imports, pre, prev >>
  /\ UNCHANGED << nvars, bvars, qvars, pvars >>

\* one pass of the search loop (lines 243-260), with its batch commit
SearchInsert ==
  /\ pc = "searchInsert"
  /\ idx < req.len
  /\ search' = SearchStep(search, req, SessionRowIdOf(db, req), idx)
  /\ searchDisk' = IF BatchBoundary(idx, SEARCH_BATCH_SIZE) THEN search' ELSE searchDisk
  /\ idx' = idx + 1
  /\ UNCHANGED << db, dbDisk, dbTx, searchTx, pc, req, outcome, thrown,
                  imports, pre, prev >>
  /\ UNCHANGED << nvars, bvars, qvars, pvars >>

\* line 261: the last commit; importSession returns
SearchCommit ==
  /\ pc = "searchInsert"
  /\ idx = req.len
  /\ searchDisk' = search
  /\ searchTx' = FALSE
  /\ pc' = "idle"
  /\ idx' = 0
  /\ outcome' = "done"
  /\ thrown' = FALSE
  /\ UNCHANGED << db, dbDisk, dbTx, search, req, imports, pre, prev >>
  /\ UNCHANGED << nvars, bvars, qvars, pvars >>

\* as PrimaryFail, rethrowing without the rollback
PrimaryFail_NoRollback ==
  /\ pc \in {"importSession", "messages"}
  /\ pc' = "idle"
  /\ idx' = 0
  /\ outcome' = "primary_failed"
  /\ thrown' = TRUE
  /\ UNCHANGED << db, dbDisk, dbTx, search, searchDisk, searchTx, req, imports, pre, prev >>
  /\ UNCHANGED << nvars, bvars, qvars, pvars >>

\* a statement of the primary write raises: the outer catch (lines 268-271)
\* rolls the open transaction back and rethrows
PrimaryFail ==
  /\ pc \in {"importSession", "messages"}
  /\ db' = dbDisk
  /\ dbTx' = FALSE
  /\ pc' = "idle"
  /\ idx' = 0
  /\ outcome' = "primary_failed"
  /\ thrown' = TRUE
  /\ UNCHANGED << dbDisk, search, searchDisk, searchTx, req, imports, pre, prev >>
  /\ UNCHANGED << nvars, bvars, qvars, pvars >>

\* as SearchFail, without the inner try: the error reaches the outer catch
\* and the caller
SearchFail_Propagates ==
  /\ pc \in {"searchDelete", "searchInsert"}
  /\ pc' = "idle"
  /\ idx' = 0
  /\ outcome' = "search_failed"
  /\ thrown' = TRUE
  /\ UNCHANGED << db, dbDisk, dbTx, search, searchDisk, searchTx, req, imports, pre, prev >>
  /\ UNCHANGED << nvars, bvars, qvars, pvars >>

\* as SearchFail, logging the error without rolling back
SearchFail_NoRollback ==
  /\ pc \in {"searchDelete", "searchInsert"}
  /\ pc' = "idle"
  /\ idx' = 0
  /\ outcome' = "search_failed"
  /\ thrown' = FALSE
  /\ UNCHANGED << db, dbDisk, dbTx, search, searchDisk, searchTx, req, imports, pre, prev >>
  /\ UNCHANGED << nvars, bvars, qvars, pvars >>

\* a statement of the search write raises: the inner catch (lines 262-267)
\* logs, rolls the search transaction back (a rollback without a transaction
\* raises and is logged too) and importSession returns
SearchFail ==
  /\ pc \in {"searchDelete", "searchInsert"}
  /\ search' = searchDisk
  /\ searchTx' = FALSE
  /\ pc' = "idle"
  /\ idx' = 0
  /\ outcome' = "search_failed"
  /\ thrown' = FALSE
  /\ UNCHANGED << db, dbDisk, dbTx, searchDisk, req, imports, pre, prev >>
  /\ UNCHANGED << nvars, bvars, qvars, pvars >>

\* the process is stopped in the middle of an import: what was not committed
\* is lost, the next process opens the stores as they are on disk
Interrupt ==
  /\ pc # "idle"
  /\ db' = dbDisk
  /\ search' = searchDisk
  /\ dbTx' = FALSE
  /\ searchTx' = FALSE
  /\ pc' = "idle"
  /\ idx' = 0
  /\ outcome' = "interrupted"
  /\ thrown' = FALSE
  /\ UNCHANGED << dbDisk, searchDisk, req, imports, pre, prev >>
  /\ UNCHANGED << nvars, bvars, qvars, pvars >>

Next ==
  \/ \E r \in Requests : ImportSingleSession(r)
  \/ BeginSession
  \/ UpsertMessage
  \/ FinishPrimary
  \/ SearchDelete
  \/ SearchInsert
  \/ SearchCommit
  \/ PrimaryFail
  \/ SearchFail
  \/ Interrupt

Spec == Init /\ [][Next]_vars

(***************************************************************************)
(* POST /import/session.  The handler checks the body, calls               *)
(* importSingleSession without awaiting the promise it returns, and        *)
(* answers.  importSession awaits nothing, so the import has run to its    *)
(* end when the call returns; an error of the import is a rejection of the *)
(* promise, which the try block of the handler does not see.  The importer *)
(* is given the stores of the application, so close() closes nothing.      *)
(***************************************************************************)
\* the bodies posted: the requests, and one without a session id
Bodies ==
  Requests \cup { [project |-> ProjectA, sid |-> "", len |-> 1, variant |-> 1] }

\* the error of the 400 answer of the handler, "" when the body passes
BodyError(swp) ==
  IF swp.session.sessionId = "" THEN "Missing session data"
  ELSE IF swp.projectName = "" THEN "Missing projectName"
  ELSE IF swp.projectPath = <<>> \/ swp.projectPath = UnknownPath
       THEN "Missing or invalid projectPath"
  ELSE IF swp.provider = "" THEN "Missing provider"
  ELSE ""

\* what res.status(status).json(...) sends for the body
Sent(body, status, error) ==
  [kind |-> "sent", body |-> body, status |-> status, ok |-> (error = ""),
   error |-> error]

\* the handler up to the call of importSingleSession
PostImportSession(body) ==
  /\ pc = "idle"
  /\ response.kind # "pending" \/ outcome = "interrupted"
  /\ LET error == BodyError(SessionWithProjectOf(body))
     IN IF error # ""
        THEN /\ response' = Sent(body, 400, error)
             /\ UNCHANGED ivars
        ELSE /\ CallImportSingleSession(body)
             /\ response' = [kind |-> "pending", body |-> body]
  /\ UNCHANGED << nvars, bvars, answer, pvars >>

\* the call has returned its promise: importer.close() and res.json
SendResponse ==
  /\ response.kind = "pending"
  /\ pc = "idle" /\ outcome # "interrupted"
  /\ response' = Sent(response.body, 200, "")
  /\ UNCHANGED << ivars, nvars, bvars, answer, pvars >>

EndpointNext ==
  \/ \E body \in Bodies : PostImportSession(body)
  \/ BeginSession
  \/ UpsertMessage
  \/ FinishPrimary
  \/ SearchDelete
  \/ SearchInsert
  \/ SearchCommit
  \/ PrimaryFail
  \/ SearchFail
  \/ Interrupt
  \/ SendResponse

EndpointSpec == Init /\ [][EndpointNext]_vars


(***************************************************************************)
(* The statements of importSingleSession and of the primary write of       *)
(* importSession run one after another on a store d, up to given points.   *)
(***************************************************************************)
AfterProject(d, r) == ProjectUpsert(d, ProjectOf(r))

AfterSession(d, r) ==
  LET d1 == AfterProject(d, r)
  IN SessionUpsert(d1, SessionDataOf(r, ProjectIdOf(d1, ProjectUuidOf(r))))

\* the store after the first k passes of the message loop: the rows of the
\* session with sequence < k are those of the request, a row that was there
\* keeping its id and the others numbered on in sequence order
AfterMessages(d, r, k) ==
  LET d1 == AfterSession(d, r)
      sessionRowId == SessionRowIdOf(d1, r)
      Old(i) == { m \in d1.messages : m.sessionId = sessionRowId /\ m.sequence = i }
      Fresh(i) == Cardinality({ j \in 0..i : Old(j) = {} })
      IdOf(i) == IF Old(i) # {} THEN (CHOOSE m \in Old(i) : TRUE).id
                 ELSE d1.seq.messages + Fresh(i)
  IN [d1 EXCEPT
        !.messages =
           { m \in @ : ~(m.sessionId = sessionRowId /\ m.sequence < k) }
           \cup { WithId(MessageDataOf(r, sessionRowId, i), IdOf(i)) : i \in 0..(k - 1) },
        !.seq.messages = @ + Fresh(k - 1)]

\* the store after the whole primary write
FinalPrimary(d, r) ==
  LET d1 == AfterMessages(d, r, r.len)
  IN DeleteStale(d1, SessionRowIdOf(d1, r), r.len - 1)

\* the loop indexes at which the primary (or the search) write has committed
\* a batch when the loop has made at most n passes
BatchPoints(n, size) == { k \in 1..n : k % size = 0 }

HasText(entry) == entry.content # <<>>

\* the search rows of the first k messages of r, in order
FreshSearchUpTo(r, k) ==
  SelectSeq([i \in 1..k |-> SearchEntryOf(r, MessageDataOf(r, 0, i - 1))], HasText)

\* the search rows after the delete and the first k passes of the search loop
SearchAfter(rows, r, k) == SearchDeleteBySessionId(rows, r.sid) \o FreshSearchUpTo(r, k)

(***************************************************************************)
(* A provider session is normalized and its Session Detail imported.  The  *)
(* import is importSingleSession with importSession run to its end without *)
(* a failure, as one step on the messages of the Session Detail.           *)
(***************************************************************************)
\* the request under which the Session Detail `messages` is imported
DetailRequest(messages) ==
  [project |-> ProjectA, sid |-> "s1", len |-> Len(messages), variant |-> 1]

\* messageData of the loop body at index i (0-based) for these messages
DetailCard(messages, sessionRowId, i) ==
  convertToMessage(messages[i + 1], sessionRowId,
                   SessionWithProjectOf(DetailRequest(messages)).created, i)

RECURSIVE ImportMessages(_, _, _, _)
\* the first k passes of the message loop
ImportMessages(d, messages, sessionRowId, k) ==
  IF k = 0 THEN d
  ELSE MessageUpsert(ImportMessages(d, messages, sessionRowId, k - 1),
                     DetailCard(messages, sessionRowId, k - 1))

\* the primary store after the import of the Session Detail
ImportedPrimary(d, messages) ==
  LET r == DetailRequest(messages)
      d1 == AfterSession(d, r)
      sessionRowId == SessionRowIdOf(d1, r)
      d2 == ImportMessages(d1, messages, sessionRowId, Len(messages))
  IN DeleteStale(d2, sessionRowId, Len(messages) - 1)

\* the search index after the import of the Session Detail
ImportedSearch(rows, messages) ==
  LET r == DetailRequest(messages)
  IN SearchDeleteBySessionId(rows, r.sid)
     \o SelectSeq([i \in 1..Len(messages) |->
                     SearchEntryOf(r, DetailCard(messages, 0, i - 1))], HasText)

\* a normalizer parses one provider session
Normalize(inp) ==
  /\ provider = "none"
  /\ provider' = inp.provider
  /\ raw' = inp.raw
  /\ detail' = NormalizerOf(inp.provider, inp.raw)
  /\ UNCHANGED << ivars, bvars, qvars, pvars >>

\* the Session Detail is imported
ImportDetail ==
  /\ provider # "none"
  /\ pc = "idle" /\ outcome = "none"
  /\ db' = ImportedPrimary(db, detail)
  /\ dbDisk' = db'
  /\ search' = ImportedSearch(search, detail)
  /\ searchDisk' = search'
  /\ req' = DetailRequest(detail)
  /\ outcome' = "done"
  /\ imports' = imports + 1
  /\ UNCHANGED << dbTx, searchTx, pc, idx, thrown, pre, prev >>
  /\ UNCHANGED << nvars, bvars, qvars, pvars >>

NormNext ==
  \/ \E inp \in NormInputs : Normalize(inp)
  \/ ImportDetail

NormSpec == Init /\ [][NormNext]_vars

(***************************************************************************)
(* importAll.  The sessions of the adapters are filtered, grouped by       *)
(* project name and imported group by group.  Times are counted in units   *)
(* of 10^9 ms, so that the limit 1_000_000_000_000 of toDateTimeString is  *)
(* EpochMsLimit; a date-time string is represented by the instant it       *)
(* names, which is what `new Date(s).getTime()` reads from it.  The        *)
(* sessions of a run have fewer than MSG_BATCH_SIZE messages, so that      *)
(* importSession commits once, or rolls back to where it began.            *)
(***************************************************************************)
MaxBatch == 3
\* the adapters of the importer
NumAdapters == 2

EpochMsLimit == 1000

\* toDateTimeString (utils/time.ts)
toDateTimeString(timestamp) ==
  IF timestamp > EpochMsLimit THEN timestamp ELSE timestamp * 1000

ProjectOtherDir == [path |-> <<"/", "x", "/", "a">>, name |-> "a"]
ProjectNoName == [path |-> <<"/">>, name |-> ""]
ProjectC == [path |-> <<"/", "c">>, name |-> "c"]

\* the sessions the adapters may return: two sessions of project /a, one of
\* another directory with the same last segment, one with the placeholder
\* path, one of the root directory (which has no name), two of project /c,
\* the second of them last updated at the instant EpochMsLimit
AdapterSessions ==
  { [project |-> ProjectA, sid |-> "s1", len |-> 1, variant |-> 1002],
    [project |-> ProjectA, sid |-> "s2", len |-> 2, variant |-> 1001],
    [project |-> ProjectOtherDir, sid |-> "s3", len |-> 1, variant |-> 1003],
    [project |-> ProjectUnknown, sid |-> "s4", len |-> 1, variant |-> 1004],
    [project |-> ProjectNoName, sid |-> "s5", len |-> 0, variant |-> 1001],
    [project |-> ProjectC, sid |-> "s1", len |-> 1, variant |-> 1001],
    [project |-> ProjectC, sid |-> "s6", len |-> 0, variant |-> EpochMsLimit - 1] }

\* what the adapters of a run return, one after another
Batches ==
  { b \in SeqsUpTo(AdapterSessions, MaxBatch) :
      \A i, j \in 1..Len(b) : b[i] = b[j] => i = j }

RECURSIVE Splits(_, _)
\* the ways n adapters, one after another, return the sessions b
Splits(b, n) ==
  IF n = 1 THEN { << b >> }
  ELSE UNION { { << SubSeq(b, 1, c) >> \o rest :
                   rest \in Splits(SubSeq(b, c + 1, Len(b)), n - 1) } :
               c \in 0..Len(b) }

\* `this.adapters` with what each adapter finds
AdapterResults == UNION { Splits(b, NumAdapters) : b \in Batches }

HasProjectName(s) == SessionWithProjectOf(s).projectName # ""

\* `allSessions.filter(s => ...)`
validSessions(sessions) == SelectSeq(sessions, HasProjectName)

RECURSIVE ProjectNamesUpTo(_, _)
\* the keys of `grouped` after the first k sessions, in insertion order
ProjectNamesUpTo(sessions, k) ==
  IF k = 0 THEN <<>>
  ELSE LET names == ProjectNamesUpTo(sessions, k - 1)
           projectName == SessionWithProjectOf(sessions[k]).projectName
       IN IF \E i \in 1..Len(names) : names[i] = projectName
          THEN names ELSE Append(names, projectName)

\* groupSessionsByProject, as Object.entries lists it
groupSessionsByProject(sessions) ==
  LET names == ProjectNamesUpTo(sessions, Len(sessions))
  IN [ g \in 1..Len(names) |->
         [ projectName |-> names[g],
           sessions |-> SelectSeq(sessions,
                          LAMBDA s : SessionWithProjectOf(s).projectName = names[g]) ] ]

MathMin(S) == CHOOSE x \in S : \A y \in S : x <= y
MathMax(S) == CHOOSE x \in S : \A y \in S : x >= y

\* the characters of a project name
NameChars(projectName) ==
  CASE projectName = "a" -> <<"a">>
    [] projectName = "c" -> <<"c">>
    [] projectName = "unknown" -> UnknownPath
    [] OTHER -> <<>>

\* `projectPath || projectName` of a group
UuidSource(g) ==
  LET projectPath == SessionWithProjectOf(g.sessions[1]).projectPath
  IN IF projectPath # <<>> THEN projectPath ELSE NameChars(g.projectName)

\* the project importAll upserts for a group
GroupProject(g) ==
  LET swps == { SessionWithProjectOf(g.sessions[i]) : i \in 1..Len(g.sessions) }
  IN [ projectUuid |-> generateProjectUuid(UuidSource(g)),
       name |-> g.projectName,
       path |-> SessionWithProjectOf(g.sessions[1]).projectPath,
       createdAt |-> toDateTimeString(MathMin({ swp.created : swp \in swps })),
       updatedAt |-> toDateTimeString(MathMax({ swp.updated : swp \in swps })) ]

\* the session as importSession works on it in a group: importSession reads
\* the project through the projectId and projectUuid of the group only
InGroup(s, g) == [s EXCEPT !.project = [path |-> UuidSource(g), name |-> g.projectName]]

\* `!projectPath || projectPath === 'unknown'`
HasNoProjectPath(s) ==
  LET swp == SessionWithProjectOf(s)
  IN swp.projectPath = <<>> \/ swp.projectPath = UnknownPath

RECURSIVE UpsertMessages(_, _, _, _)
\* the first k passes of the message loop of importSession
UpsertMessages(d, r, sessionRowId, k) ==
  IF k = 0 THEN d
  ELSE MessageUpsert(UpsertMessages(d, r, sessionRowId, k - 1),
                     MessageDataOf(r, sessionRowId, k - 1))

\* the primary write of importSession, run to its commit
PrimaryWrite(d, r) ==
  LET d1 == SessionUpsert(d, SessionDataOf(r, ProjectIdOf(d, ProjectUuidOf(r))))
      sessionRowId == SessionRowIdOf(d1, r)
      d2 == UpsertMessages(d1, r, sessionRowId, r.len)
  IN DeleteStale(d2, sessionRowId, r.len - 1)

Groups == groupSessionsByProject(validSessions(allSessions))
CurrentGroup == Groups[group]
CurrentSession == CurrentGroup.sessions[member]

\* importAll is called: the adapters of the importer are those of the run
ImportAll(results) ==
  /\ bpc = "idle"
  /\ adapterSessions' = results
  /\ scanned' = 0
  /\ allSessions' = <<>>
  /\ bpc' = "scan"
  /\ UNCHANGED << ivars, nvars, qvars, pvars, group, member, importedCount, errorCount,
                  trail, returned >>

\* as GetSessions, the sessions of the adapter put before those found so far
GetSessions_Prepends ==
  /\ bpc = "scan"
  /\ scanned < Len(adapterSessions)
  /\ allSessions' = adapterSessions[scanned + 1] \o allSessions
  /\ scanned' = scanned + 1
  /\ UNCHANGED << ivars, nvars, qvars, pvars, adapterSessions, bpc, group, member,
                  importedCount, errorCount, trail, returned >>

\* one pass of the loop over the adapters: `await adapter.getSessions()`,
\* `allSessions.push(...sessions)`
GetSessions ==
  /\ bpc = "scan"
  /\ scanned < Len(adapterSessions)
  /\ allSessions' = allSessions \o adapterSessions[scanned + 1]
  /\ scanned' = scanned + 1
  /\ UNCHANGED << ivars, nvars, qvars, pvars, adapterSessions, bpc, group, member,
                  importedCount, errorCount, trail, returned >>

\* importAll from the end of the loop over the adapters up to the loop over
\* the groups: the sessions without a project name are dropped, the others
\* grouped
GroupSessions ==
  /\ bpc = "scan"
  /\ scanned = Len(adapterSessions)
  /\ trail' = [ i \in 1..(Len(allSessions) - Len(validSessions(allSessions))) |->
                 [ sessionId |-> SelectSeq(allSessions, LAMBDA s : ~HasProjectName(s))[i].sid,
                   fate |-> "no_project_name" ] ]
  /\ importedCount' = 0
  /\ errorCount' = 0
  /\ IF validSessions(allSessions) = <<>>
     THEN bpc' = "finish" /\ group' = 0
     ELSE bpc' = "project" /\ group' = 1
  /\ member' = 0
  /\ UNCHANGED << ivars, nvars, qvars, pvars, svars, allSessions, returned >>

\* the head of the loop over the groups: the project row of the group
UpsertGroupProject ==
  /\ bpc = "project"
  /\ db' = ProjectUpsert(db, GroupProject(CurrentGroup))
  /\ dbDisk' = db'
  /\ bpc' = "session"
  /\ member' = 1
  /\ UNCHANGED << dbTx, search, searchDisk, searchTx, pc, req, idx, outcome,
                  thrown, imports, pre, prev >>
  /\ UNCHANGED << nvars, qvars, pvars, svars, allSessions, group, importedCount, errorCount,
                  trail, returned >>

\* the loops go on: the next session of the group, the next group, or the end
Advance ==
  IF member < Len(CurrentGroup.sessions)
  THEN bpc' = "session" /\ member' = member + 1 /\ group' = group
  ELSE IF group < Len(Groups)
       THEN bpc' = "project" /\ member' = 0 /\ group' = group + 1
       ELSE bpc' = "finish" /\ member' = member /\ group' = group

Fate(fate) == trail' = Append(trail, [sessionId |-> CurrentSession.sid, fate |-> fate])

\* a session without a usable project path: logged, `continue`
SkipSession ==
  /\ bpc = "session"
  /\ HasNoProjectPath(CurrentSession)
  /\ Fate("no_project_path")
  /\ Advance
  /\ UNCHANGED << ivars, nvars, qvars, pvars, svars, allSessions, importedCount, errorCount, returned >>

\* importSession returns: the primary write and the search write are done
ImportSessionDone ==
  /\ bpc = "session"
  /\ ~HasNoProjectPath(CurrentSession)
  /\ LET r == InGroup(CurrentSession, CurrentGroup)
     IN /\ db' = PrimaryWrite(db, r)
        /\ dbDisk' = db'
        /\ search' = SearchAfter(search, r, r.len)
        /\ searchDisk' = search'
  /\ importedCount' = importedCount + 1
  /\ Fate("imported")
  /\ Advance
  /\ UNCHANGED << dbTx, searchTx, pc, req, idx, outcome, thrown, imports, pre, prev >>
  /\ UNCHANGED << nvars, qvars, pvars, svars, allSessions, errorCount, returned >>

\* as ImportSessionPrimaryFails, the error leaving the loops
ImportSessionPrimaryFails_StopsRun ==
  /\ bpc = "session"
  /\ ~HasNoProjectPath(CurrentSession)
  /\ errorCount' = errorCount + 1
  /\ Fate("error")
  /\ bpc' = "finish"
  /\ UNCHANGED << ivars, nvars, qvars, pvars, svars, allSessions, group, member, importedCount, returned >>

\* importSession rejects: a statement of the primary write raised, the
\* transaction was rolled back and the error rethrown to the catch of the loop
ImportSessionPrimaryFails ==
  /\ bpc = "session"
  /\ ~HasNoProjectPath(CurrentSession)
  /\ errorCount' = errorCount + 1
  /\ Fate("error")
  /\ Advance
  /\ UNCHANGED << ivars, nvars, qvars, pvars, svars, allSessions, importedCount, returned >>

\* importSession returns after a statement of the search write raised: the
\* delete itself, or an insert after the delete was committed
ImportSessionSearchFails ==
  /\ bpc = "session"
  /\ ~HasNoProjectPath(CurrentSession)
  /\ LET r == InGroup(CurrentSession, CurrentGroup)
     IN /\ db' = PrimaryWrite(db, r)
        /\ dbDisk' = db'
        /\ \E deleted \in BOOLEAN :
             search' = IF deleted THEN SearchDeleteBySessionId(search, r.sid) ELSE search
        /\ searchDisk' = search'
  /\ importedCount' = importedCount + 1
  /\ Fate("search_error")
  /\ Advance
  /\ UNCHANGED << dbTx, searchTx, pc, req, idx, outcome, thrown, imports, pre, prev >>
  /\ UNCHANGED << nvars, qvars, pvars, svars, allSessions, errorCount, returned >>

\* the end of importAll: the counts and the statistics are logged, and the
\* promise resolves with no value
FinishImportAll ==
  /\ bpc = "finish"
  /\ bpc' = "done"
  /\ returned' = NULL
  /\ UNCHANGED << ivars, nvars, qvars, pvars, svars, allSessions, group, member,
                  importedCount, errorCount, trail >>

BatchNext ==
  \/ \E results \in AdapterResults : ImportAll(results)
  \/ GetSessions
  \/ GroupSessions
  \/ UpsertGroupProject
  \/ SkipSession
  \/ ImportSessionDone
  \/ ImportSessionPrimaryFails
  \/ ImportSessionSearchFails
  \/ FinishImportAll

BatchSpec == Init /\ [][BatchNext]_vars

(***************************************************************************)
(* SearchRepository.search and searchByProject.  The statement is run by   *)
(* SQLite: the FTS5 query syntax reads the bound text as a C string, that  *)
(* is up to its first NUL character; a phrase of fewer than three          *)
(* characters has no trigram and matches no row; LIMIT with a negative     *)
(* value is no limit.  The identifiers, card types, titles and names of    *)
(* the rows of the model contain none of the query texts, so a row matches *)
(* through its content; the columns the statement computes (highlight,     *)
(* score) are left out of the results, and so is the order of the rows,    *)
(* the rows a query of the model matches being equal in text and time.     *)
(***************************************************************************)
MAX_LIMIT == 100

\* the character U+0000
NulChar == "NUL"

Quote == "\""

\* String.trim()
trim(s) == TrimLeft(TrimRight(s))

RECURSIVE escapeFts5Value(_)
\* value.replace(/"/g, '""')
escapeFts5Value(value) ==
  IF value = <<>> THEN <<>>
  ELSE (IF Head(value) = Quote THEN <<Quote, Quote>> ELSE <<Head(value)>>)
       \o escapeFts5Value(Tail(value))

\* as escapeFts5Query, leaving the quotes of the query as they are
escapeFts5Query_NoEscape(query) ==
  LET trimmed == trim(query)
  IN IF trimmed = <<>> THEN <<Quote, Quote>>
     ELSE <<Quote>> \o trimmed \o <<Quote>>

\* escapeFts5Query: the trimmed query, escaped, between two quotes
escapeFts5Query(query) ==
  LET trimmed == trim(query)
  IN IF trimmed = <<>> THEN <<Quote, Quote>>
     ELSE <<Quote>> \o escapeFts5Value(trimmed) \o <<Quote>>

RECURSIVE CString(_)
\* the text as a C string: up to the first NUL
CString(text) ==
  IF text = <<>> \/ Head(text) = NulChar THEN <<>>
  ELSE <<Head(text)>> \o CString(Tail(text))

RECURSIVE QuotedEnd(_, _)
\* the index of the quote that closes the string whose body begins at i
\* (a doubled quote is a quote of the body), or 0 when the text ends first
QuotedEnd(text, i) ==
  IF i > Len(text) THEN 0
  ELSE IF text[i] # Quote THEN QuotedEnd(text, i + 1)
  ELSE IF i < Len(text) /\ text[i + 1] = Quote THEN QuotedEnd(text, i + 2)
  ELSE i

RECURSIVE Unquote(_)
\* the body of a quoted string, its doubled quotes single again
Unquote(body) ==
  IF body = <<>> THEN <<>>
  ELSE IF Head(body) = Quote /\ Len(body) > 1 /\ body[2] = Quote
       THEN <<Quote>> \o Unquote(Tail(Tail(body)))
       ELSE <<Head(body)>> \o Unquote(Tail(body))

\* the characters with a meaning of their own in the FTS5 query syntax, and
\* the punctuation it does not accept outside a string
Fts5Special == {Quote, "(", ")", "*", ":", "+", "-", "^", ",", "{", "}", ".", "/"}

IsBareChar(c) == ~IsSpace(c) /\ c \notin Fts5Special

RECURSIVE BareEnd(_, _)
\* the index of the last character of the bareword that begins at i
BareEnd(text, i) ==
  IF i < Len(text) /\ IsBareChar(text[i + 1]) THEN BareEnd(text, i + 1) ELSE i

RECURSIVE Fts5ParseFrom(_, _)
\* the phrases of a query text from index i on: strings and barewords
Fts5ParseFrom(text, i) ==
  IF i > Len(text) THEN [ok |-> TRUE, phrases |-> <<>>]
  ELSE IF IsSpace(text[i]) THEN Fts5ParseFrom(text, i + 1)
  ELSE IF text[i] = Quote
       THEN LET e == QuotedEnd(text, i + 1)
            IN IF e = 0 THEN [ok |-> FALSE, phrases |-> <<>>]
               ELSE LET rest == Fts5ParseFrom(text, e + 1)
                    IN [ ok |-> rest.ok,
                         phrases |-> <<Unquote(SubSeq(text, i + 1, e - 1))>> \o rest.phrases ]
  ELSE IF IsBareChar(text[i])
       THEN LET e == BareEnd(text, i)
                rest == Fts5ParseFrom(text, e + 1)
            IN [ok |-> rest.ok, phrases |-> <<SubSeq(text, i, e)>> \o rest.phrases]
  ELSE [ok |-> FALSE, phrases |-> <<>>]

\* what `MATCH ?` makes of the bound text: its phrases, or a syntax error
Fts5Parse(text) ==
  LET p == Fts5ParseFrom(CString(text), 1)
  IN IF p.ok /\ p.phrases # <<>> THEN p ELSE [ok |-> FALSE, phrases |-> <<>>]

\* a row matches when every phrase is a substring of its content, letter
\* case apart
\* the characters of the strings the rows hold
Chars(str) ==
  CASE str = "user" -> <<"u", "s", "e", "r">>
    [] str = "assistant" -> <<"a", "s", "s", "i", "s", "t", "a", "n", "t">>
    [] str = "thinking" -> <<"t", "h", "i", "n", "k", "i", "n", "g">>
    [] str = "tool-use" -> <<"t", "o", "o", "l", "-", "u", "s", "e">>
    [] str = "tool-result" -> <<"t", "o", "o", "l", "-", "r", "e", "s", "u", "l", "t">>
    [] str = "info" -> <<"i", "n", "f", "o">>
    [] str = "error" -> <<"e", "r", "r", "o", "r">>
    [] str = "title" -> <<"t", "i", "t", "l", "e">>
    [] str = "s1" -> <<"s", "1">>
    [] str = "s2" -> <<"s", "2">>
    [] str = "s3" -> <<"s", "3">>
    [] OTHER -> NameChars(str)

DigitChar(d) ==
  CASE d = 0 -> "0" [] d = 1 -> "1" [] d = 2 -> "2" [] d = 3 -> "3" [] d = 4 -> "4"
    [] d = 5 -> "5" [] d = 6 -> "6" [] d = 7 -> "7" [] d = 8 -> "8" [] OTHER -> "9"

RECURSIVE Decimal(_)
Decimal(n) ==
  IF n < 10 THEN << DigitChar(n) >> ELSE Decimal(n \div 10) \o << DigitChar(n % 10) >>

\* the text of each indexed column of a row (timestamp is UNINDEXED); the
\* project id is the text of the identifier, a session title the word
\* `title` and the number of its variant
ColumnTexts(row) ==
  << row.content, Chars(row.sessionId), row.projectId, Chars(row.cardType),
     Chars(row.sessionTitle[1]) \o Decimal(row.sessionTitle[2]),
     Chars(row.projectName) >>

\* as RowMatches, a phrase of any length matching
RowMatches_AnyLength(row, phrases) ==
  \A k \in 1..Len(phrases) :
    \E c \in 1..Len(ColumnTexts(row)) :
      Includes(LowerCase(ColumnTexts(row)[c]), LowerCase(phrases[k]))

\* `search_messages MATCH ?`: every phrase is found in some column, the
\* letters compared without their case
RowMatches(row, phrases) ==
  \A k \in 1..Len(phrases) :
    /\ Len(phrases[k]) >= 3
    /\ \E c \in 1..Len(ColumnTexts(row)) :
         Includes(LowerCase(ColumnTexts(row)[c]), LowerCase(phrases[k]))

Matching(rows, ftsQuery) ==
  SelectSeq(rows, LAMBDA row : RowMatches(row, Fts5Parse(ftsQuery).phrases))

\* LIMIT ?
SqlLimit(rows, n) ==
  IF n < 0 \/ n >= Len(rows) THEN rows ELSE SubSeq(rows, 1, n)

\* SearchRepository.search
RepositorySearch(rows, query, limit) ==
  LET safeLimit == IF limit < MAX_LIMIT THEN limit ELSE MAX_LIMIT
      ftsQuery == escapeFts5Query(query)
  IN IF ~Fts5Parse(ftsQuery).ok
     THEN [raised |-> TRUE, ftsQuery |-> ftsQuery, results |-> <<>>]
     ELSE [ raised |-> FALSE, ftsQuery |-> ftsQuery,
            results |-> SqlLimit(Matching(rows, ftsQuery), safeLimit) ]

\* SearchRepository.searchByProject
searchByProject(rows, projectName, query, limit) ==
  LET safeLimit == IF limit < MAX_LIMIT THEN limit ELSE MAX_LIMIT
      ftsQuery == escapeFts5Query(query)
  IN IF ~Fts5Parse(ftsQuery).ok
     THEN [raised |-> TRUE, ftsQuery |-> ftsQuery, results |-> <<>>]
     ELSE [ raised |-> FALSE, ftsQuery |-> ftsQuery,
            results |-> SqlLimit(SelectSeq(Matching(rows, ftsQuery),
                                           LAMBDA row : row.projectName = projectName),
                                 safeLimit) ]

\* the query texts of the model: plain, padded, empty, blank, with a quote,
\* with a parenthesis, an operator word, a star, with a NUL character; a
\* fragment of a file path, two letters of a word, a word in capitals, a
\* word no row has, and the name of a card type
Queries ==
  { <<"f", "i", "x">>, <<" ", "f", "i", "x", "\n">>, <<>>, <<" ", " ">>,
    <<"f", "i", Quote, "x">>, <<Quote, "f", "i", "x", Quote>>,
    <<"(", "f", "i", "x">>, <<"O", "R">>, <<"f", "i", "x", "*">>,
    <<"f", "i", "x", NulChar, "a">>,
    <<"c", "/", "a", ".">>, <<"f", "i">>, <<"F", "I", "X">>, <<"z", "z", "z">>,
    <<"u", "s", "e", "r">> }

Limits == {0 - 1, 0, 1, MAX_LIMIT - 1, MAX_LIMIT, MAX_LIMIT + 1, 2 * MAX_LIMIT}

\* the sessions a query may find indexed: sessions of project /a in which the
\* text "fix" comes once, MAX_LIMIT times and MAX_LIMIT + 1 times, and two
\* sessions of project /c, one of them with the text "see src/a.ts"
IndexedSessions ==
  { [project |-> ProjectA, sid |-> "s1", len |-> 7 * n, variant |-> 1] :
      n \in {1, MAX_LIMIT, MAX_LIMIT + 1} }
  \cup { [project |-> ProjectC, sid |-> "s2", len |-> 7, variant |-> 1],
         [project |-> ProjectC, sid |-> "s3", len |-> 3, variant |-> ExampleVariant] }

\* importSingleSession, run to its end without a failure, as one step
IndexSession(r) ==
  /\ pc = "idle" /\ imports < 2
  /\ \A x \in db.sessions : x.sessionId # r.sid
  /\ answer = NoAnswer
  /\ db' = FinalPrimary(db, r)
  /\ dbDisk' = db'
  /\ search' = SearchAfter(search, r, r.len)
  /\ searchDisk' = search'
  /\ req' = r
  /\ outcome' = "done"
  /\ imports' = imports + 1
  /\ UNCHANGED << dbTx, searchTx, pc, idx, thrown, pre, prev >>
  /\ UNCHANGED << nvars, bvars, qvars, pvars >>

\* a call of search (a search changes no store: the model looks at one call)
Search(query, limit) ==
  /\ pc = "idle"
  /\ answer = NoAnswer
  /\ answer' = [kind |-> "search", query |-> query, limit |-> limit, projectName |-> ""]
                  @@ RepositorySearch(searchDisk, query, limit)
  /\ UNCHANGED << ivars, nvars, bvars, pvars, response >>

\* a call of searchByProject
SearchByProject(projectName, query, limit) ==
  /\ pc = "idle"
  /\ answer = NoAnswer
  /\ answer' = [ kind |-> "searchByProject", query |-> query, limit |-> limit,
                 projectName |-> projectName ]
                  @@ searchByProject(searchDisk, projectName, query, limit)
  /\ UNCHANGED << ivars, nvars, bvars, pvars, response >>

QueryNext ==
  \/ \E r \in IndexedSessions : IndexSession(r)
  \/ \E query \in Queries, limit \in Limits : Search(query, limit)
  \/ \E projectName \in {"a", "c"}, query \in Queries, limit \in Limits :
       SearchByProject(projectName, query, limit)

QuerySpec == Init /\ [][QueryNext]_vars

(***************************************************************************)
(* The parsers on files that are not well formed.  A session file is a     *)
(* sequence of lines; a line is described by what JSON.parse makes of it   *)
(* and by the fields the parsers read from it.  parseContent of the Claude *)
(* Code and Codex parsers reads line by line inside a try block;           *)
(* parseContent of the Droid parser parses the first line outside any try  *)
(* block, parseContent of the Gemini parser the whole text; parseFile      *)
(* of every parser catches what parseContent raises.                       *)
(***************************************************************************)
MaxLines == 2

\* the lines of a file: blank; text that is no JSON; a cut-off object; the
\* JSON value null; an object without fields; the session_start line of
\* Droid; a message line of Droid, whole and without its `message` field; a
\* user line of Claude Code; a response_item line of Codex; a whole Gemini
\* session document
LineTexts ==
  { "", "garbage", "{broken", "null", "{}", "droid_session_start",
    "droid_message", "droid_message_no_body", "claude_user", "codex_item",
    "gemini_document" }

SessionFiles == SeqsUpTo(LineTexts, MaxLines)

\* JSON.parse(text) does not raise
JsonParses(text) == text \notin {"", "garbage", "{broken"}

\* `startsWith('{')` of a trimmed line
StartsWithBrace(line) == line \notin {"", "garbage", "null"}

\* the `type` field of a parsed line (NULL: undefined)
TypeField(line) ==
  CASE line = "droid_session_start" -> "session_start"
    [] line \in {"droid_message", "droid_message_no_body"} -> "message"
    [] line = "claude_user" -> "user"
    [] line = "codex_item" -> "response_item"
    [] OTHER -> NULL

\* the outcomes of a call: a value (null, or a session with its number of
\* messages) or an error
ReturnsNull == [raised |-> FALSE, error |-> NULL, isNull |-> TRUE, messages |-> 0]
ReturnsSession(n) == [raised |-> FALSE, error |-> NULL, isNull |-> FALSE, messages |-> n]
Raises(error) == [raised |-> TRUE, error |-> error, isNull |-> FALSE, messages |-> 0]

\* `content.split('\n').filter(line => line.trim())`
NonBlank(content) == SelectSeq(content, LAMBDA line : line # "")

\* the lines of a content that are the given text
CountOf(content, text) == Len(SelectSeq(content, LAMBDA line : line = text))

\* ClaudeSessionParser.parseContent: every line that starts with `{` is
\* parsed inside try; a line gives a message when it has a timestamp and a
\* type of this provider
ClaudeParseContent(content) == ReturnsSession(CountOf(content, "claude_user"))

\* CodexSessionParser.parseContent
CodexParseContent(content) == ReturnsSession(CountOf(content, "codex_item"))

\* DroidSessionParser.parseContent
DroidParseContentText(content) ==
  LET lines == NonBlank(content)
  IN IF lines = <<>> THEN ReturnsNull
     ELSE IF ~JsonParses(lines[1]) THEN Raises("SyntaxError")
     ELSE IF lines[1] = "null" THEN Raises("TypeError")
     ELSE IF TypeField(lines[1]) # "session_start" THEN ReturnsNull
     ELSE ReturnsSession(CountOf(Tail(lines), "droid_message"))

\* GeminiSessionParser.parseContent: JSON.parse of the whole text, then the
\* loop over sessionData.messages
GeminiParseContent(content) ==
  LET values == NonBlank(content)
  IN IF Len(values) # 1 \/ ~JsonParses(values[1]) THEN Raises("SyntaxError")
     ELSE IF values[1] # "gemini_document" THEN Raises("TypeError")
     ELSE ReturnsSession(1)

Parsers == {"claude_code", "codex", "droid", "gemini"}

parseContent(p, content) ==
  CASE p = "claude_code" -> ClaudeParseContent(content)
    [] p = "codex" -> CodexParseContent(content)
    [] p = "droid" -> DroidParseContentText(content)
    [] p = "gemini" -> GeminiParseContent(content)

\* as parseFile, without the try block
parseFile_NoCatch(p, f) ==
  IF f = NoFile THEN ReturnsNull ELSE parseContent(p, f)

\* parseFile: null when the file does not exist, null when reading or
\* parsing raises
parseFile(p, f) ==
  IF f = NoFile THEN ReturnsNull
  ELSE IF parseContent(p, f).raised THEN ReturnsNull
  ELSE parseContent(p, f)

\* a session file is written
WriteFile(content) ==
  /\ file = NoFile /\ parsed = NoParse
  /\ file' = content
  /\ UNCHANGED << ivars, nvars, bvars, qvars, parsed >>

\* parseContent is called with the text of the file
ParseContent(p) ==
  /\ file # NoFile /\ parsed = NoParse
  /\ parsed' = [entry |-> "parseContent", provider |-> p, call |-> parseContent(p, file)]
  /\ UNCHANGED << ivars, nvars, bvars, qvars, file >>

\* parseFile is called with the path of the file, which may not exist
ParseFile(p) ==
  /\ parsed = NoParse
  /\ parsed' = [entry |-> "parseFile", provider |-> p, call |-> parseFile(p, file)]
  /\ UNCHANGED << ivars, nvars, bvars, qvars, file >>

ParseNext ==
  \/ \E content \in SessionFiles : WriteFile(content)
  \/ \E p \in Parsers : ParseContent(p)
  \/ \E p \in Parsers : ParseFile(p)

ParseSpec == Init /\ [][ParseNext]_vars

(***************************************************************************)
(* What the claims speak of.                                               *)
(***************************************************************************)
\* a message row without the two store-assigned numbers
CardView(m) ==
  [ sequence |-> m.sequence, cardType |-> m.cardType, title |-> m.title,
    subtitle |-> m.subtitle, content |-> m.content, timestamp |-> m.timestamp,
    canExpand |-> m.canExpand, isError |-> m.isError, createdAt |-> m.createdAt ]

\* the message rows of the session of request r in store d
SessionMessages(d, r) ==
  IF HasSessionOf(d, r) THEN MessagesOf(d, SessionRowIdOf(d, r)) ELSE {}

\* the session row (as a set of no or one row) of request r in store d
SessionRows(d, r) ==
  IF HasSessionOf(d, r)
  THEN {SessionRow(d, ProjectIdOf(d, ProjectUuidOf(r)), r.sid)} ELSE {}

\* what a reader sees of the session of request r
SessionView(d, r) == [session |-> SessionRows(d, r), messages |-> SessionMessages(d, r)]

\* the rows one import of r into an empty store leaves, without row numbers
FreshCards(r) == { CardView(MessageDataOf(r, 0, i)) : i \in 0..(r.len - 1) }

FreshSearch(r) == FreshSearchUpTo(r, r.len)

Returned == pc = "idle" /\ outcome \in {"done", "search_failed"}
SameSession(r1, r2) == r1.sid = r2.sid /\ ProjectUuidOf(r1) = ProjectUuidOf(r2)


(***************************************************************************)
(* Claims.                                                                 *)
(***************************************************************************)
\* the last two calls imported the same (project, provider session id) and
\* both ran to their end
ReimportDone ==
  /\ pc = "idle" /\ outcome = "done"
  /\ prev.outcome = "done" /\ SameSession(prev.req, req)

\* C1: importing S1 and then S2 (same project and provider session id, any
\* content, any message count) leaves the message rows and the search rows of
\* the session as one import of S2 into empty stores leaves them.
C1_ReimportEqualsFreshImport ==
  ReimportDone =>
    /\ { CardView(m) : m \in SessionMessages(db, req) } = FreshCards(req)
    /\ Cardinality(SessionMessages(db, req)) = req.len
    /\ SearchRowsOf(search, req.sid) = FreshSearch(req)

\* C2: re-importing with M messages a session that has N > M message rows
\* removes exactly the rows with sequence >= M, for every M >= 0.
C2_TruncationRemovesExactlyTheTail ==
  LET old == SessionMessages(pre.db, req)
      new == SessionMessages(db, req)
  IN (Returned /\ Cardinality(old) > req.len) =>
       { m.id : m \in new } = { m.id : m \in { x \in old : x.sequence < req.len } }

\* C3: importing the same session twice in succession leaves the message rows
\* the first import left (same rows, same contents), with no sequence twice.
C3_ImportTwiceIsImportOnce ==
  (pc = "idle" /\ outcome = "done" /\ prev.outcome = "done" /\ prev.req = req) =>
    LET rows == SessionMessages(db, req)
    IN /\ rows = SessionMessages(pre.db, req)
       /\ \A m1, m2 \in rows : m1.sequence = m2.sequence => m1 = m2

C3_Witness ==
  /\ pc = "idle" /\ outcome = "done" /\ prev.outcome = "done" /\ prev.req = req
  /\ req.len = LongLen
  /\ Cardinality(SessionMessages(db, req)) = LongLen


\* the committed primary store an attempt on store d may leave when its
\* primary write fails: projects.upsert ran before the transaction, and each
\* batch commit of the message loop made the work up to it permanent
PrimaryCommitPoints(d, r) ==
  {AfterProject(d, r)}
  \cup { AfterMessages(d, r, k) : k \in BatchPoints(r.len, MSG_BATCH_SIZE) }

\* C4 as stated: after a failed primary write the primary store is as it was
\* before the attempt began.
C4_FailedPrimaryLeavesStoreUntouched ==
  (pc = "idle" /\ outcome = "primary_failed") => dbDisk = pre.db /\ db = pre.db

\* C4 amended: a failed primary write is rolled back to the last commit of the
\* attempt: the store holds the project upsert and the message batches of 50
\* committed before the failure, and nothing of the batch under way; with no
\* batch committed, no session or message row of the attempt remains.
C4_FailedPrimaryRollsBackToLastCommit ==
  (pc = "idle" /\ outcome = "primary_failed") =>
    /\ db = dbDisk
    /\ dbTx = FALSE
    /\ dbDisk \in PrimaryCommitPoints(pre.db, req)
    /\ req.len < MSG_BATCH_SIZE =>
         /\ dbDisk.sessions = pre.db.sessions
         /\ dbDisk.messages = pre.db.messages

\* a primary write that failed after its first batch commit
C4_Witness ==
  /\ pc = "idle" /\ outcome = "primary_failed"
  /\ req.len = LongLen
  /\ Cardinality(SessionMessages(dbDisk, req)) = MSG_BATCH_SIZE
  /\ dbDisk # pre.db

\* the views of the session of r a committed primary store may show while r
\* is imported over store d: the one before, or the one after a batch commit
BatchViews(d, r, n) ==
  {SessionView(d, r)}
  \cup { SessionView(AfterMessages(d, r, k), r) : k \in BatchPoints(n, MSG_BATCH_SIZE) }

\* C5 as stated: while a session is imported, the committed primary store
\* shows its rows either as before the import or as the import leaves them.
C5_ReaderSeesOldOrNewSession ==
  pc \in {"importSession", "messages"} =>
    SessionView(dbDisk, req) \in
      { SessionView(pre.db, req), SessionView(FinalPrimary(pre.db, req), req) }

\* C5 amended: while the primary write runs, the committed store shows the
\* session as before the import or as it was at one of the batch commits
\* (after 50, 100, ... messages); a session of fewer than 50 messages is seen
\* either wholly old or wholly new.
C5_ReaderSeesWholeBatches ==
  /\ pc \in {"importSession", "messages"} =>
       SessionView(dbDisk, req) \in BatchViews(pre.db, req, idx)
  /\ (pc \in {"searchDelete", "searchInsert"} \/ Returned) =>
       SessionView(dbDisk, req) = SessionView(FinalPrimary(pre.db, req), req)
  /\ (pc \in {"importSession", "messages"} /\ req.len < MSG_BATCH_SIZE) =>
       SessionView(dbDisk, req) = SessionView(pre.db, req)

\* a short session half written in the open transaction, unseen by readers
C5_Witness ==
  /\ pc = "messages" /\ idx = 1 /\ req.len = 2
  /\ SessionMessages(pre.db, req) # {}
  /\ SessionView(db, req) # SessionView(dbDisk, req)
  /\ SessionView(dbDisk, req) = SessionView(pre.db, req)


\* C6: a failed search write does not fail the import: the call returns
\* without raising, and the primary store holds the committed result of the
\* primary write, unchanged.
C6_SearchFailureKeepsPrimary ==
  (pc = "idle" /\ outcome = "search_failed") =>
    /\ thrown = FALSE
    /\ dbTx = FALSE
    /\ db = dbDisk
    /\ dbDisk = FinalPrimary(pre.db, req)

\* a search write that failed after the primary write of a long session
C6_Witness ==
  /\ pc = "idle" /\ outcome = "search_failed"
  /\ req.len = LongLen
  /\ Cardinality(SessionMessages(dbDisk, req)) = LongLen
  /\ SessionMessages(pre.db, req) = {}

\* the committed search rows an attempt on rows `rows` may leave when its
\* search write fails: the rows as they were (the delete itself failed), or
\* the rows after the delete and after each batch commit of the search loop
SearchCommitPoints(rows, r) ==
  { rows, SearchAfter(rows, r, 0) }
  \cup { SearchAfter(rows, r, k) : k \in BatchPoints(r.len, SEARCH_BATCH_SIZE) }

\* C7 as stated: when the search write fails after its delete, no search row
\* inserted by the attempt remains in the index.
C7_FailedSearchLeavesNoInsertedRow ==
  [][(SearchFail /\ pc = "searchInsert") => SearchRowsOf(searchDisk', req.sid) = <<>>]_vars

\* C7 amended: a failed search write is rolled back to the last commit of the
\* attempt: the rows inserted since the last batch commit of 50 are removed,
\* the rows of the batches committed before remain, and the delete of the
\* session's earlier rows, committed before the transaction began, stays.
C7_FailedSearchRollsBackToLastCommit ==
  (pc = "idle" /\ outcome = "search_failed") =>
    /\ search = searchDisk
    /\ searchTx = FALSE
    /\ searchDisk \in SearchCommitPoints(pre.search, req)
    /\ req.len < SEARCH_BATCH_SIZE =>
         searchDisk \in { pre.search, SearchDeleteBySessionId(pre.search, req.sid) }

\* a search write that failed after its first batch commit
C7_Witness ==
  /\ pc = "idle" /\ outcome = "search_failed"
  /\ req.len = LongLen
  /\ SearchRowsOf(searchDisk, req.sid) = FreshSearchUpTo(req, SEARCH_BATCH_SIZE)
  /\ SearchRowsOf(searchDisk, req.sid) # <<>>

\* C8: when an import of a session failed or was interrupted and the same
\* session is then imported to the end, its primary rows and its search rows
\* are those a single successful import would have left in the place of the
\* failed one.
C8_RetryAfterFailureIsOneImport ==
  (pc = "idle" /\ outcome = "done" /\ prev.req = req /\ prev.outcome \in
     {"primary_failed", "search_failed", "interrupted"}) =>
    /\ SessionView(db, req) = SessionView(FinalPrimary(prev.pre.db, req), req)
    /\ SearchRowsOf(search, req.sid)
         = SearchRowsOf(SearchAfter(prev.pre.search, req, req.len), req.sid)
    /\ db = dbDisk /\ search = searchDisk

\* a long session imported to the end after an attempt that had committed a
\* batch of it
C8_Witness ==
  /\ pc = "idle" /\ outcome = "done" /\ prev.req = req
  /\ prev.outcome \in {"primary_failed", "search_failed", "interrupted"}
  /\ req.len = LongLen
  /\ pre.db # prev.pre.db
  /\ Cardinality(SessionMessages(pre.db, req)) = MSG_BATCH_SIZE

\* the search entry a rebuild derives from message row m of session row x
EntryOfRow(d, x, m) ==
  LET p == CHOOSE q \in d.projects : q.id = x.projectId
  IN [ content |-> extractText(m.content), sessionId |-> x.sessionId,
       projectId |-> p.projectUuid, cardType |-> m.cardType,
       sessionTitle |-> x.title, projectName |-> p.name, timestamp |-> m.timestamp ]

\* the search rows of session row x match one-to-one its message rows with
\* non-empty extracted text
IndexedOneToOne(d, rows, x) ==
  LET msgs == { m \in MessagesOf(d, x.id) : extractText(m.content) # <<>> }
      p == CHOOSE q \in d.projects : q.id = x.projectId
      mine == { i \in 1..Len(rows) :
                  rows[i].sessionId = x.sessionId /\ rows[i].projectId = p.projectUuid }
  IN /\ \A m \in msgs :
          Cardinality({ i \in mine : rows[i] = EntryOfRow(d, x, m) })
            = Cardinality({ n \in msgs : EntryOfRow(d, x, n) = EntryOfRow(d, x, m) })
     /\ \A i \in mine : \E m \in msgs : rows[i] = EntryOfRow(d, x, m)

SearchIsRebuildOfPrimary ==
  /\ \A x \in db.sessions : IndexedOneToOne(db, search, x)
  /\ \A i \in 1..Len(search) :
       \E x \in db.sessions :
         /\ x.sessionId = search[i].sessionId
         /\ (CHOOSE q \in db.projects : q.id = x.projectId).projectUuid
              = search[i].projectId

\* C9: after every completed import, in a run of imports that all completed,
\* the search index is what a rebuild from the primary store gives: the search
\* rows of each persisted session match one-to-one its message rows with
\* non-empty extracted text, and every search row belongs to a persisted
\* session.
C9_SearchIsRebuildOfPrimary ==
  (pc = "idle" /\ outcome = "done" /\ prev.outcome \in {"none", "done"}) =>
    SearchIsRebuildOfPrimary

\* C10: after a successful import the search index holds, for the provider
\* session id of the session, one row per imported message with non-empty
\* extracted text, in message order, and no other row.
C10_SearchRowsAreThoseOfTheImport ==
  (pc = "idle" /\ outcome = "done") =>
    /\ SearchRowsOf(search, req.sid) = FreshSearch(req)
    /\ searchDisk = search

\* a re-import with fewer messages, one of them without text
C10_Witness ==
  /\ pc = "idle" /\ outcome = "done" /\ prev.outcome = "done"
  /\ SameSession(prev.req, req)
  /\ req.len = 2 /\ prev.req.len = LongLen
  /\ Len(FreshSearch(req)) = 1
  /\ Len(SearchRowsOf(pre.search, req.sid)) > 2

\* C11: when a session is re-imported, every message row whose sequence exists
\* both before and after the re-import keeps its row id, and the rows at the
\* sequences of the re-import carry the new column values.
C11_ReimportKeepsRowIdentity ==
  (pc = "idle" /\ outcome = "done" /\ HasSessionOf(pre.db, req)) =>
    \A m \in SessionMessages(pre.db, req) :
      \A n \in SessionMessages(db, req) :
        m.sequence = n.sequence =>
          /\ n.id = m.id
          /\ n.sequence < req.len =>
                n = WithId(MessageDataOf(req, n.sessionId, n.sequence), m.id)

\* a re-import with other contents of a session that had rows, of which some
\* sequences stay and one goes
C11_Witness ==
  /\ pc = "idle" /\ outcome = "done" /\ prev.outcome = "done"
  /\ SameSession(prev.req, req) /\ prev.req.variant # req.variant
  /\ prev.req.len = 2 /\ req.len = 1
  /\ \E m \in SessionMessages(pre.db, req) : \E n \in SessionMessages(db, req) :
       m.sequence = n.sequence /\ m.id = n.id /\ CardView(m) # CardView(n)

(***************************************************************************)
(* Claims on the normalizers and the correlator (specification NormSpec).  *)
(***************************************************************************)
IsToolUse(m) == m.type = "tool_use"
IsToolResult(m) == m.type = "tool_result"

\* the tool_result messages of msgs that carry identifier id, in order
ResultsWithId(msgs, id) ==
  LET Mine(m) == IsToolResult(m) /\ m.toolCallId = id IN SelectSeq(msgs, Mine)

\* some tool_use of msgs carries identifier id
ToolUseWithId(msgs, id) ==
  \E j \in 1..Len(msgs) : IsToolUse(msgs[j]) /\ msgs[j].toolCallId = id

\* the text of the first code-type block of a tool output, or the serialized
\* output when it has no code-type block
FirstCodeOrJson(output) ==
  LET codes == { k \in 1..Len(output) : output[k].type = "code" }
  IN IF codes # {} THEN output[Least(codes)].code ELSE JsonStringify(output)

\* the result a correlated tool_use carries for tool_result r
ReducedResult(r) ==
  [output |-> FirstCodeOrJson(r.output), isError |-> r.isError, toolCallId |-> r.toolCallId]

\* the texts a persisted message row holds in its content column
PersistedTexts(row) ==
  UNION { { BlockParts(row.content[j])[k] : k \in 1..Len(BlockParts(row.content[j])) } :
          j \in 1..Len(row.content) }

\* the persisted row of the imported Session Detail at sequence i
PersistedRowAt(i) ==
  CHOOSE m \in SessionMessages(db, req) : m.sequence = i

\* C12: for every identifier that occurs on a tool_use and on a tool_result of
\* one session, the persisted tool_use row carries the outputs of the
\* tool_result messages with that identifier.
C12_PersistedToolUseCarriesResults ==
  (provider \in Correlating /\ outcome = "done") =>
    \A i \in 1..Len(detail) :
      (/\ IsToolUse(detail[i])
       /\ detail[i].toolCallId # NULL
       /\ ResultsWithId(raw, detail[i].toolCallId) # <<>>) =>
        LET results == ResultsWithId(raw, detail[i].toolCallId)
        IN \A k \in 1..Len(results) :
             FirstCodeOrJson(results[k].output) \in PersistedTexts(PersistedRowAt(i - 1))

\* C13: after correlation no tool_result stands in the output whose
\* identifier is the identifier of some tool_use of the input, wherever the
\* two stand in the input.
C13_NoMatchedToolResultStandsAlone ==
  (provider \in Correlating) =>
    \A i \in 1..Len(detail) :
      IsToolResult(detail[i]) =>
        ~(detail[i].toolCallId # NULL /\ ToolUseWithId(raw, detail[i].toolCallId))

\* a tool_result that stands before its tool_use in the input
C13_Witness ==
  /\ provider \in Correlating
  /\ \E j, k \in 1..Len(raw) :
       /\ j < k /\ IsToolResult(raw[j]) /\ IsToolUse(raw[k])
       /\ raw[j].toolCallId = "c1" /\ raw[k].toolCallId = "c1"
  /\ \A i \in 1..Len(detail) : ~IsToolResult(detail[i])
  /\ detail # <<>>

\* the provider input has a tool result for tool-call identifier id
InputHasResult(id) ==
  CASE provider \in Correlating -> ResultsWithId(raw, id) # <<>>
    [] provider = "droid" ->
         \E j \in 1..Len(raw) : \E k \in 1..Len(raw[j].content) :
           /\ raw[j].role = "user"
           /\ raw[j].content[k].type = "tool_result"
           /\ raw[j].content[k].tool_use_id = id
    [] OTHER ->
         \E j \in 1..Len(raw) :
           raw[j].id = id /\ (raw[j].result # <<>> \/ raw[j].fileDiff # NULL)

\* C14: in the Session Detail of every normalizer a tool_use that has a
\* tool_result with its identifier carries results inline, and a tool_result
\* stands alone only if no tool_use of the session has its identifier.
C14_DetailIsCorrelated ==
  (provider # "none") =>
    /\ \A i \in 1..Len(detail) :
         (IsToolUse(detail[i]) /\ detail[i].toolCallId # NULL
            /\ InputHasResult(detail[i].toolCallId)) => detail[i].results # <<>>
    /\ \A i \in 1..Len(detail) :
         (IsToolResult(detail[i]) /\ detail[i].toolCallId # NULL) =>
           ~ToolUseWithId(detail, detail[i].toolCallId)

\* C15: a tool_result without an identifier, or with an identifier that no
\* tool_use of the session carries, stands in the correlation output.
C15_UnmatchedToolResultIsKept ==
  (provider \in Correlating) =>
    \A j \in 1..Len(raw) :
      (IsToolResult(raw[j])
         /\ (raw[j].toolCallId = NULL \/ ~ToolUseWithId(raw, raw[j].toolCallId))) =>
        \E i \in 1..Len(detail) : detail[i] = raw[j]

\* msgs without its tool_use messages that have no identifier
WithoutIdlessToolUse(msgs) ==
  LET Keep(m) == ~(IsToolUse(m) /\ m.toolCallId = NULL) IN SelectSeq(msgs, Keep)

ToolResultsIn(msgs) == SelectSeq(msgs, IsToolResult)

\* C16: a tool_use without an identifier is emitted as it is, and the
\* tool_result messages of the output are those the correlation keeps when
\* the tool_use messages without an identifier are not there.
C16_IdlessToolUseIsNeverCorrelated ==
  (provider \in Correlating) =>
    /\ \A j \in 1..Len(raw) :
         (IsToolUse(raw[j]) /\ raw[j].toolCallId = NULL) =>
           \E i \in 1..Len(detail) : detail[i] = raw[j]
    /\ ToolResultsIn(detail)
         = ToolResultsIn(connectToolResultsToToolUse(WithoutIdlessToolUse(raw)))

\* message i of msgs as an order-preserving correlation leaves it: a
\* consumed tool_result is removed, a correlated tool_use has its results
\* replaced, every other message is kept as it is
CorrelatedMessage(msgs, i) ==
  LET m == msgs[i]
  IN IF IsToolResult(m) /\ m.toolCallId # NULL /\ ToolUseWithId(msgs, m.toolCallId)
     THEN <<>>
     ELSE IF IsToolUse(m) /\ m.toolCallId # NULL /\ ResultsWithId(msgs, m.toolCallId) # <<>>
          THEN LET results == ResultsWithId(msgs, m.toolCallId)
               IN << [m EXCEPT !.results =
                        [k \in 1..Len(results) |-> ReducedResult(results[k])]] >>
          ELSE << m >>

RECURSIVE CorrelatedUpTo(_, _)
CorrelatedUpTo(msgs, k) ==
  IF k = 0 THEN <<>> ELSE CorrelatedUpTo(msgs, k - 1) \o CorrelatedMessage(msgs, k)

\* C17: the correlation output is the input, in input order, without the
\* consumed tool_result messages and with the results of the correlated
\* tool_use messages replaced.
C17_CorrelationPreservesOrder ==
  (provider \in Correlating) => detail = CorrelatedUpTo(raw, Len(raw))

\* the example of the claim: tool_use(Read, c1), then tool_result(c1)
ReadToolUse ==
  [type |-> "tool_use", timestamp |-> 2, toolName |-> "Read", toolCallId |-> "c1",
   input |-> << <<"file_path", <<"/", "a">> >> >>, results |-> <<>>]

ReadToolResult ==
  [type |-> "tool_result", timestamp |-> 5, toolCallId |-> "c1",
   output |-> << [type |-> "code", code |-> FileContents] >>, isError |-> FALSE]

\* C18: the results of a correlated tool_use are the tool_result messages
\* with its identifier, each reduced to {output, isError, toolCallId} with
\* output the text of its first code-type block or else the serialized
\* output; tool_use(Read, c1), tool_result(c1, [code "file contents"]) gives
\* the one message tool_use with that one result.
C18_ResultsAreReducedToolResults ==
  (provider \in Correlating) =>
    /\ \A i \in 1..Len(detail) :
         (IsToolUse(detail[i]) /\ detail[i].toolCallId # NULL
            /\ ResultsWithId(raw, detail[i].toolCallId) # <<>>) =>
           LET results == ResultsWithId(raw, detail[i].toolCallId)
           IN detail[i].results = [k \in 1..Len(results) |-> ReducedResult(results[k])]
    /\ (raw = << ReadToolUse, ReadToolResult >>) =>
         detail = << [ReadToolUse EXCEPT !.results =
                        << [output |-> FileContents, isError |-> FALSE,
                            toolCallId |-> "c1"] >>] >>

C18_Witness ==
  /\ provider = "claude_code"
  /\ raw = << ReadToolUse, ReadToolResult >>
  /\ Len(detail) = 1
  /\ detail[1].results[1].output = FileContents

(***************************************************************************)
(* Claims on the persisted order and on the session rows (Spec).           *)
(***************************************************************************)
\* C19: after a successful import of a session of N messages its persisted
\* message rows, read in ascending sequence, are the rows derived from the
\* N messages in their order, at sequences 0 .. N-1.
C19_PersistedOrderIsMessageOrder ==
  (pc = "idle" /\ outcome = "done") =>
    LET sessionRowId == SessionRowIdOf(db, req)
        rows == getBySessionId(db, sessionRowId)
    IN [i \in 1..Len(rows) |-> CardView(rows[i])]
         = [i \in 1..req.len |-> CardView(MessageDataOf(req, sessionRowId, i - 1))]

\* C20: there is at most one session row for a (project, provider session
\* id) pair, in what the importer sees and in what is committed, and a
\* re-import updates the row of the session and adds none.
C20_OneSessionRowPerKey ==
  /\ \A d \in {db, dbDisk} : \A x, y \in d.sessions :
       (x.projectId = y.projectId /\ x.sessionId = y.sessionId) => x = y
  /\ (pc = "idle" /\ outcome = "done" /\ HasSessionOf(pre.db, req)) =>
       /\ SessionRowIdOf(db, req) = SessionRowIdOf(pre.db, req)
       /\ Cardinality(db.sessions) = Cardinality(pre.db.sessions)
       /\ SessionRow(db, ProjectIdOf(db, ProjectUuidOf(req)), req.sid).title
            = SessionWithProjectOf(req).session.title

\* a session imported again with another title and message count
C20_Witness ==
  /\ pc = "idle" /\ outcome = "done" /\ prev.outcome = "done"
  /\ SameSession(prev.req, req) /\ prev.req.variant # req.variant
  /\ prev.req.len # req.len
  /\ Cardinality(db.sessions) = 1
  /\ SessionRows(db, req) # SessionRows(pre.db, req)

\* the keys of the committed project rows and session rows of store d
ProjectKeys(d) == { <<p.id, p.projectUuid>> : p \in d.projects }
SessionKeys(d) == { <<s.id, s.projectId, s.sessionId>> : s \in d.sessions }

\* C21: no step of an import, succeeding or failing, removes a persisted
\* project row or session row: the committed rows only grow or stay.
C21_ProjectAndSessionRowsOnlyGrow ==
  [][ /\ ProjectKeys(dbDisk) \subseteq ProjectKeys(dbDisk')
      /\ SessionKeys(dbDisk) \subseteq SessionKeys(dbDisk') ]_vars

\* a session imported again with no message: the committed
\* rows of the project and of the session are still there, under their ids
C21_Witness ==
  /\ pc = "idle" /\ outcome = "done" /\ prev.outcome = "done"
  /\ SameSession(prev.req, req) /\ prev.req.len > 0 /\ req.len = 0
  /\ ProjectKeys(dbDisk) = ProjectKeys(pre.db)
  /\ SessionKeys(dbDisk) = SessionKeys(pre.db)
  /\ SessionKeys(dbDisk) # {}

\* the session rows of store d under project row p
SessionsUnder(d, p) == { s \in d.sessions : s.projectId = p.id }

\* C22: after any sequence of imports each project's created timestamp is
\* the minimum created timestamp, and its updated timestamp the maximum
\* updated timestamp, of the session rows persisted under it.
C22_ProjectTimestampsAreMinMaxOfSessions ==
  (pc = "idle" /\ outcome = "done") =>
    \A p \in dbDisk.projects :
      LET under == SessionsUnder(dbDisk, p)
      IN under # {} =>
           /\ \A s \in under : p.createdAt <= s.createdAt
           /\ \E s \in under : p.createdAt = s.createdAt
           /\ \A s \in under : p.updatedAt >= s.updatedAt
           /\ \E s \in under : p.updatedAt = s.updatedAt

\* the normalization the specification names: the trailing separator is
\* stripped, the separators are unified and the letters lowercased
IsSeparator(c) == c \in {"/", "\\"}

NormalizedPath(path) ==
  LET stripped == IF path # <<>> /\ IsSeparator(path[Len(path)])
                  THEN SubSeq(path, 1, Len(path) - 1) ELSE path
  IN [i \in 1..Len(stripped) |->
        IF IsSeparator(stripped[i]) THEN "/" ELSE ToLower(stripped[i])]

\* C23: two raw paths that are equal after normalization resolve to the same
\* project identifier, and so to one project row: no two project rows have
\* paths with the same normalization, and a session imported under either
\* spelling is stored under the project the other spelling resolves to.
C23_SameNormalizedPathSameProject ==
  /\ \A r1, r2 \in Requests :
       NormalizedPath(r1.project.path) = NormalizedPath(r2.project.path)
         => ProjectUuidOf(r1) = ProjectUuidOf(r2)
  /\ generateProjectUuid(ProjectHome.path) = generateProjectUuid(ProjectHomeLower.path)
  /\ \A d \in {db, dbDisk} : \A p, q \in d.projects :
       NormalizedPath(p.path) = NormalizedPath(q.path) => p = q
  /\ \A d \in {db, dbDisk} : \A p \in d.projects :
       p.projectUuid = generateProjectUuid(p.path)
  /\ (pc = "idle" /\ outcome = "done") =>
       \A r \in Requests :
         NormalizedPath(r.project.path) = NormalizedPath(req.project.path)
           => /\ HasSessionOf(db, [r EXCEPT !.sid = req.sid])
              /\ ProjectIdOf(db, ProjectUuidOf(r)) = ProjectIdOf(db, ProjectUuidOf(req))

\* "/Home/User/Proj/" was imported, then "/home/user/proj": one project row
\* and one session row
C23_Witness ==
  /\ pc = "idle" /\ outcome = "done" /\ prev.outcome = "done"
  /\ prev.req.project = ProjectHome /\ req.project = ProjectHomeLower
  /\ Cardinality(db.projects) = 1
  /\ Cardinality(db.sessions) = 1
  /\ \A p \in db.projects : p.path = ProjectHomeLower.path

\* the sessions of a run in the order importAll comes to them
RECURSIVE InGroupOrder(_, _)
InGroupOrder(groups, k) ==
  IF k = 0 THEN <<>> ELSE InGroupOrder(groups, k - 1) \o groups[k].sessions

ProcessingOrder(sessions) ==
  LET groups == groupSessionsByProject(validSessions(sessions))
  IN InGroupOrder(groups, Len(groups))

RECURSIVE PushedUpTo(_, _)
\* the stores after importSingleSession was called with the first k of the
\* sessions, one after another, on empty stores
PushedUpTo(sessions, k) ==
  IF k = 0 THEN [db |-> EmptyDb, search |-> <<>>]
  ELSE LET p == PushedUpTo(sessions, k - 1)
           r == sessions[k]
       IN IF ValidRequest(SessionWithProjectOf(r))
          THEN [db |-> FinalPrimary(p.db, r), search |-> SearchAfter(p.search, r, r.len)]
          ELSE p

NoFailure == \A i \in 1..Len(trail) : trail[i].fate \notin {"error", "search_error"}

\* C24: a run of importAll in which no write fails leaves the project,
\* session, message and search rows that importSingleSession leaves when it
\* is called with the same sessions, in the order importAll comes to them.
C24_PushPathEqualsBatchPath ==
  (bpc = "done" /\ NoFailure) =>
    LET order == ProcessingOrder(allSessions)
        pushed == PushedUpTo(order, Len(order))
    IN /\ dbDisk.projects = pushed.db.projects
       /\ dbDisk.sessions = pushed.db.sessions
       /\ dbDisk.messages = pushed.db.messages
       /\ searchDisk = pushed.search

\* the project rows of store d without their ids
ProjectViews(d) ==
  { [ projectUuid |-> p.projectUuid, name |-> p.name, path |-> p.path,
      createdAt |-> p.createdAt, updatedAt |-> p.updatedAt ] : p \in d.projects }

RECURSIVE ProjectsUpTo(_, _)
\* the project rows after the first k groups
ProjectsUpTo(groups, k) ==
  IF k = 0 THEN EmptyDb
  ELSE ProjectUpsert(ProjectsUpTo(groups, k - 1), GroupProject(groups[k]))

HasProjectPath(s) == ~HasNoProjectPath(s)

\* C26: a session with an empty or placeholder project path is skipped by
\* importAll: it is logged, no session row and no search row is written for
\* it, the project rows are those of the run without it, and every other
\* session of the run is still attempted.
C26_PathlessSessionIsSkipped ==
  bpc = "done" =>
    LET valid == validSessions(allSessions)
        kept == SelectSeq(valid, HasProjectPath)
        groups == groupSessionsByProject(kept)
    IN /\ \A i \in 1..Len(valid) : HasNoProjectPath(valid[i]) =>
            /\ \E j \in 1..Len(trail) :
                 trail[j] = [sessionId |-> valid[i].sid, fate |-> "no_project_path"]
            /\ \A x \in dbDisk.sessions : x.sessionId # valid[i].sid
            /\ SearchRowsOf(searchDisk, valid[i].sid) = <<>>
       /\ Len(trail) = Len(allSessions)
       /\ ProjectViews(dbDisk) = ProjectViews(ProjectsUpTo(groups, Len(groups)))

\* the entries of the trail with one of the given fates
WithFate(fates) == SelectSeq(trail, LAMBDA e : e.fate \in fates)

\* C27: a failure of the primary write of one session does not stop the run
\* of importAll: every session with a project name and a project path is
\* attempted, in order, and errorCount counts each failed session once.
C27_PrimaryFailureDoesNotStopTheRun ==
  /\ errorCount = Len(WithFate({"error"}))
  /\ importedCount = Len(WithFate({"imported", "search_error"}))
  /\ bpc \in {"finish", "done"} =>
       LET order == SelectSeq(ProcessingOrder(allSessions), HasProjectPath)
           attempts == WithFate({"imported", "search_error", "error"})
       IN /\ Len(attempts) = Len(order)
          /\ \A i \in 1..Len(order) : attempts[i].sessionId = order[i].sid

\* the first session of a run failed, the two after it were imported
C27_Witness ==
  /\ bpc = "done" /\ Len(allSessions) = 3 /\ Len(trail) = 3
  /\ trail[1].fate = "error"
  /\ trail[2].fate = "imported" /\ trail[3].fate = "imported"
  /\ errorCount = 1 /\ importedCount = 2
  /\ Cardinality(dbDisk.sessions) = 2

\* C28: importAll returns to its caller the counts of imported, skipped and
\* errored sessions, and the three together count every session the adapters
\* produced once.
C28_ImportAllReturnsCounts ==
  bpc = "done" =>
    /\ returned # NULL
    /\ returned.imported + returned.skipped + returned.errored = Len(allSessions)

\* a request importSingleSession cannot import: no project name, no usable
\* project path, or a session without messages
Incomplete(r) == ~ValidRequest(SessionWithProjectOf(r)) \/ ~HasMessages(r)

\* C25: a malformed or incomplete single-session request is rejected before
\* any write: when importSingleSession has raised on it, no project,
\* session, message or search row was created or changed.
C25_IncompleteRequestIsRejectedBeforeAnyWrite ==
  (pc = "idle" /\ thrown /\ Incomplete(req)) =>
    /\ outcome = "rejected"
    /\ dbDisk = pre.db
    /\ searchDisk = pre.search

\* C29: for every requested limit (above the maximum, zero or negative)
\* search and searchByProject return at most MAX_LIMIT results.
C29_ResultsAreCappedAtMaxLimit ==
  (answer # NoAnswer /\ ~answer.raised) => Len(answer.results) <= MAX_LIMIT

\* the text with every quote doubled, character by character
DoubledAt(text, i) == IF text[i] = Quote THEN <<Quote, Quote>> ELSE <<text[i]>>

RECURSIVE DoubledUpTo(_, _)
DoubledUpTo(text, k) ==
  IF k = 0 THEN <<>> ELSE DoubledUpTo(text, k - 1) \o DoubledAt(text, k)

\* the query is bound as one quoted phrase: the trimmed query between two
\* quotes, its own quotes doubled
IsQuotedPhrase ==
  LET trimmed == trim(answer.query)
  IN answer.ftsQuery = <<Quote>> \o DoubledUpTo(trimmed, Len(trimmed)) \o <<Quote>>

HasNul(text) == \E i \in 1..Len(text) : text[i] = NulChar

\* C30 as stated: every query string becomes one double-quoted phrase with
\* its quotes doubled, and no query string makes the search raise.
C30_NoQueryRaises ==
  answer # NoAnswer => (IsQuotedPhrase /\ ~answer.raised)

\* C30: every query string becomes one double-quoted phrase (the trimmed
\* query, its quotes doubled), which the query syntax reads as that one
\* phrase, so that the search does not raise, whatever quotes, parentheses,
\* operators or blanks the query has; except that a query with a NUL
\* character is read up to the NUL, as an unterminated string, and raises.
C30_QueryIsOneQuotedPhrase ==
  answer # NoAnswer =>
    /\ IsQuotedPhrase
    /\ answer.raised <=> HasNul(answer.query)
    /\ ~answer.raised => Fts5Parse(answer.ftsQuery).phrases = << trim(answer.query) >>

\* a query with a quote in it was searched in a store with rows: no error,
\* and no row found
C30_Witness ==
  /\ answer # NoAnswer
  /\ answer.query = <<"f", "i", Quote, "x">>
  /\ answer.ftsQuery = <<Quote, "f", "i", Quote, Quote, "x", Quote>>
  /\ ~answer.raised /\ answer.results = <<>>
  /\ searchDisk # <<>>

\* the counts of the rows of the two stores
Counts(d, rows) ==
  [ projects |-> Cardinality(d.projects), sessions |-> Cardinality(d.sessions),
    messages |-> Cardinality(d.messages), searchEntries |-> Len(rows) ]

ExampleRequest(n) ==
  [project |-> ProjectA, sid |-> "s1", len |-> n, variant |-> ExampleVariant]

\* C31: importing the session with the two messages (user "fix bug",
\* assistant_text "done") into empty stores gives 1 project, 1 session, 2
\* messages and 2 search entries; re-importing it with only the first message
\* then gives 1 message and 1 search entry, the project and session counts
\* still 1.
C31_ExampleImportAndTruncation ==
  /\ ( /\ pc = "idle" /\ outcome = "done" /\ req = ExampleRequest(2)
       /\ pre = [db |-> EmptyDb, search |-> <<>>] ) =>
       Counts(dbDisk, searchDisk) =
         [projects |-> 1, sessions |-> 1, messages |-> 2, searchEntries |-> 2]
  /\ ( /\ pc = "idle" /\ outcome = "done" /\ req = ExampleRequest(1)
       /\ prev.outcome = "done" /\ prev.req = ExampleRequest(2)
       /\ prev.pre = [db |-> EmptyDb, search |-> <<>>] ) =>
       /\ Counts(pre.db, pre.search) =
            [projects |-> 1, sessions |-> 1, messages |-> 2, searchEntries |-> 2]
       /\ Counts(dbDisk, searchDisk) =
            [projects |-> 1, sessions |-> 1, messages |-> 1, searchEntries |-> 1]
       /\ { m.sequence : m \in dbDisk.messages } = {0}

\* the two-message session was imported into empty stores and re-imported
\* with its first message only
C31_Witness ==
  /\ pc = "idle" /\ outcome = "done" /\ req = ExampleRequest(1)
  /\ prev.outcome = "done" /\ prev.req = ExampleRequest(2)
  /\ prev.pre = [db |-> EmptyDb, search |-> <<>>]
  /\ Cardinality(dbDisk.messages) = 1 /\ Len(searchDisk) = 1

RECURSIVE Concat(_, _)
\* what the first k adapters returned, in order
Concat(results, k) ==
  IF k = 0 THEN <<>> ELSE Concat(results, k - 1) \o results[k]

\* the session s has been dealt with: skipped, imported or failed
Processed(s) == \E i \in 1..Len(trail) : trail[i].sessionId = s.sid

\* C32 as stated: during a run of importAll the adapters are processed
\* strictly one after another, the locate, parse and persist steps of each
\* adapter all completed before any step of the next adapter begins: when
\* getSessions of an adapter has run, every session of the adapters before it
\* has been dealt with.
C32_AdapterCyclesRunOneAfterAnother ==
  \A k \in 1..Len(adapterSessions) :
    scanned > k =>
      \A i \in 1..Len(adapterSessions[k]) : Processed(adapterSessions[k][i])

\* C32, amended: during a run of importAll getSessions (locate and parse) of
\* the adapters runs strictly one after another, in the order of the
\* adapters, and nothing is persisted before the last of them has returned;
\* the sessions are then persisted one after another in the order of their
\* project groups, whichever adapter they came from.
C32_AllAdaptersAreScannedBeforeAnyPersist ==
  /\ bpc = "scan" =>
       /\ allSessions = Concat(adapterSessions, scanned)
       /\ trail = <<>>
       /\ dbDisk = EmptyDb /\ searchDisk = <<>>
  /\ bpc \in {"project", "session", "finish", "done"} =>
       /\ scanned = Len(adapterSessions)
       /\ allSessions = Concat(adapterSessions, Len(adapterSessions))
       /\ LET order == ProcessingOrder(allSessions)
              dealt == WithFate({"no_project_path", "imported", "search_error", "error"})
          IN /\ Len(dealt) <= Len(order)
             /\ \A i \in 1..Len(dealt) : dealt[i].sessionId = order[i].sid

\* two adapters returned a session each, of two projects; both adapters were
\* read before the first session was persisted, and the session of the
\* second adapter was persisted
C32_Witness ==
  /\ bpc = "done"
  /\ Len(adapterSessions) = 2
  /\ Len(adapterSessions[1]) = 1 /\ Len(adapterSessions[2]) = 1
  /\ Len(trail) = 2 /\ trail[1].fate = "imported" /\ trail[2].fate = "imported"
  /\ trail[2].sessionId = adapterSessions[2][1].sid
  /\ Cardinality(dbDisk.sessions) = 2

\* a text in which no line is a well-formed record of the parser p
NoRecordOf(p, content) ==
  CASE p = "claude_code" -> CountOf(content, "claude_user") = 0
    [] p = "codex" -> CountOf(content, "codex_item") = 0
    [] p = "droid" -> content = <<>> \/ TypeField(NonBlank(content \o <<"{}">>)[1]) # "session_start"
                      \/ CountOf(content, "droid_message") = 0
    [] p = "gemini" -> CountOf(content, "gemini_document") = 0

\* C33: for every provider normalizer, parsing malformed input (invalid
\* JSON, a missing required field, empty content, a missing file) returns
\* null or an empty session and never raises an exception to its caller.
C33_MalformedInputNeverRaises ==
  parsed # NoParse =>
    /\ ~parsed.call.raised
    /\ (file = NoFile \/ NoRecordOf(parsed.provider, file)) =>
         (parsed.call.isNull \/ parsed.call.messages = 0)

\* the reading of an epoch integer the specification gives
EpochAsMs(t) == IF t >= EpochMsLimit THEN t ELSE t * 1000

\* the latest `updated` of the sessions of group g, as importAll reads it
LastUpdated(g) ==
  MathMax({ SessionWithProjectOf(g.sessions[i]).updated : i \in 1..Len(g.sessions) })

\* the project row importAll has just written for the group under way
CurrentProjectRows ==
  { p \in dbDisk.projects : p.projectUuid = GroupProject(CurrentGroup).projectUuid }

\* C34: an epoch integer t is read as milliseconds when t >= 10^12 and as
\* seconds (multiplied by 1000) when t < 10^12: the `updated` time importAll
\* stores for a project is the latest `updated` of its sessions read so.
C34_EpochAtOrAboveLimitIsMilliseconds ==
  (bpc = "session" /\ member = 1) =>
    \A p \in CurrentProjectRows : p.updatedAt = EpochAsMs(LastUpdated(CurrentGroup))

\* the limit of the last search does not cut its result
NotCut ==
  answer.limit < 0 \/ (Len(searchDisk) <= answer.limit /\ Len(searchDisk) <= MAX_LIMIT)

\* the text q is in some indexed column of the row, letters compared
\* without their case
InSomeColumn(row, q) ==
  \E c \in 1..Len(ColumnTexts(row)) : Includes(LowerCase(ColumnTexts(row)[c]), LowerCase(q))

InResults(row) == \E i \in 1..Len(answer.results) : answer.results[i] = row

SeeFile == << "s", "e", "e", " ", "s", "r", "c", "/", "a", ".", "t", "s" >>

\* C35 as stated: after an entry has been indexed, a search for a substring
\* of its text (also one with a forward slash and a period) returns that
\* entry, and a search for a term contained in no indexed entry returns an
\* empty result.
C35_SubstringSearchFindsEntry ==
  (answer.kind = "search" /\ NotCut /\ ~answer.raised) =>
    /\ \A i \in 1..Len(searchDisk) :
         Includes(searchDisk[i].content, answer.query) => InResults(searchDisk[i])
    /\ (\A i \in 1..Len(searchDisk) : ~InSomeColumn(searchDisk[i], answer.query)) =>
         answer.results = <<>>

\* C35, amended: a search whose limit does not cut the result returns, for a
\* query of at least three characters after trimming, exactly the entries
\* that hold the trimmed query in one of their indexed columns, letters
\* compared without their case, and for a shorter query nothing: so a
\* substring of three or more characters of the text of an entry (also one
\* with a forward slash and a period) returns the entry, and a term no entry
\* holds returns an empty result.
C35_SearchFindsSubstringsOfThreeOrMore ==
  (answer.kind = "search" /\ NotCut /\ ~answer.raised) =>
    LET q == trim(answer.query)
    IN /\ answer.results =
            SelectSeq(searchDisk, LAMBDA row : Len(q) >= 3 /\ InSomeColumn(row, q))
       /\ \A i \in 1..Len(searchDisk) :
            (Len(q) >= 3 /\ Includes(searchDisk[i].content, q)) => InResults(searchDisk[i])
       /\ (\A i \in 1..Len(searchDisk) : ~InSomeColumn(searchDisk[i], q)) =>
            answer.results = <<>>

\* the fragment `c/a.` of a file path was searched among several entries and
\* found the one entry that names the file
C35_Witness ==
  /\ answer.kind = "search" /\ NotCut /\ ~answer.raised
  /\ answer.query = <<"c", "/", "a", ".">>
  /\ Len(searchDisk) > 3
  /\ Len(answer.results) = 1
  /\ answer.results[1].content = SeeFile

\* the steps of an import that issue ROLLBACK, COMMIT and BEGIN
RollsBackSearch == outcome = "running" /\ outcome' = "search_failed"
RollsBackPrimary == outcome = "running" /\ outcome' = "primary_failed"
CommitsSearch == pc = "searchInsert" /\ pc' = "idle" /\ outcome' = "done"
CommitsPrimary == pc = "messages" /\ pc' = "searchDelete"
BeginsPrimary == pc = "importSession" /\ pc' = "messages"
BeginsSearch == pc = "searchDelete" /\ pc' = "searchInsert"

\* C36: on each store at most one write transaction is open at any time,
\* and on every path of a session import (success, primary failure at any
\* point, search failure at any point) every opened transaction is ended by
\* exactly one commit or rollback, with no commit or rollback issued while
\* no transaction is open.
C36_EveryTransactionIsEndedOnce ==
  [][ /\ BeginsPrimary => ~dbTx
      /\ BeginsSearch => ~searchTx
      /\ CommitsPrimary => dbTx
      /\ CommitsSearch => searchTx
      /\ (RollsBackPrimary /\ pc = "messages") => dbTx
      /\ RollsBackSearch => searchTx
      /\ pc' = "idle" => (~dbTx' /\ ~searchTx') ]_vars

\* the sessions of the run that importSession has written: the entries of
\* the trail after those of the sessions without a name follow the order in
\* which importAll comes to the sessions
Persisted ==
  LET order == ProcessingOrder(allSessions)
      dealt == WithFate({"no_project_path", "imported", "search_error", "error"})
  IN { order[i] : i \in { j \in 1..Len(dealt) : dealt[j].fate \in {"imported", "search_error"} } }

\* the session s has a row under the project of its own project path
UnderOwnProject(s) ==
  \E p \in dbDisk.projects :
    /\ p.projectUuid = generateProjectUuid(s.project.path)
    /\ \E x \in dbDisk.sessions : x.projectId = p.id /\ x.sessionId = s.sid

\* C37: every persisted session is stored under the project whose identifier
\* is generateProjectUuid of the session's own project path: sessions whose
\* paths normalize differently are never under the same project, sessions
\* whose paths normalize identically always are.
C37_SessionIsUnderTheProjectOfItsPath ==
  bpc = "done" =>
    /\ \A s \in Persisted : UnderOwnProject(s)
    /\ \A x \in dbDisk.sessions :
         \E s \in Persisted, p \in dbDisk.projects :
           /\ s.sid = x.sessionId /\ x.projectId = p.id
           /\ p.projectUuid = generateProjectUuid(s.project.path)

\* the session rows that are not the row of the session of request r
OtherSessions(d, r) ==
  { x \in d.sessions :
      ~(x.sessionId = r.sid /\
        \E p \in d.projects : p.id = x.projectId /\ p.projectUuid = ProjectUuidOf(r)) }

\* the search rows of the session row x of store d
SearchRowsOfSession(d, rows, x) ==
  SelectSeq(rows, LAMBDA e :
    /\ e.sessionId = x.sessionId
    /\ \E p \in d.projects : p.id = x.projectId /\ p.projectUuid = e.projectId)

\* C38: importing one session changes only the rows of that session: the
\* message rows and the search rows of every other persisted session (one of
\* another project, or one with another provider session id) are the same
\* before and after the import.
C38_ImportLeavesOtherSessionsAlone ==
  (pc = "idle" /\ outcome \in {"done", "search_failed", "primary_failed", "rejected"}) =>
    \A x \in OtherSessions(pre.db, req) :
      /\ MessagesOf(dbDisk, x.id) = MessagesOf(pre.db, x.id)
      /\ SearchRowsOfSession(dbDisk, searchDisk, x) =
           SearchRowsOfSession(pre.db, pre.search, x)

\* C39: after every import attempt, successful or failed, the message count
\* stored on a session row equals the number of message rows persisted for
\* that session.
C39_MessageCountIsNumberOfMessageRows ==
  pc = "idle" =>
    \A x \in dbDisk.sessions : x.messageCount = Cardinality(MessagesOf(dbDisk, x.id))

\* C40: the single-session import endpoint answers with success only if the
\* session has been persisted: whenever importSingleSession has failed for a
\* request, the answer sent for it is an error and not a success.
C40_FailedImportIsAnsweredWithAnError ==
  (response.kind = "sent" /\ response.body = req /\ pc = "idle" /\ thrown) =>
    (response.status # 200 /\ ~response.ok)

====
